---- MODULE Spec2Model ----
(***************************************************************************)
(* A model of manageJmsQueues.py:                                          *)
(*   parse_filter / get_milliseconds   (timestamp literals in selectors)   *)
(*   get_queue_name / parse_destination_name   (destination identifiers)   *)
(*   parse_url                         (the url of the connection)         *)
(*   create_report / is_all_int        (the tabular reports)               *)
(*   delete_messages_from_queue / move_messages   (the operations)         *)
(* A Python str is a sequence of one-character strings.  A regular         *)
(* expression is matched the way re.search matches it: leftmost start,     *)
(* greedy groups, '.' matching every character except a line feed.         *)
(***************************************************************************)
EXTENDS Integers, Sequences, FiniteSets, TLC

VARIABLES
    pc,          \* "start" before a call, the name of the function after it
    tz,          \* offset of the local time zone from UTC, in seconds
    msg_filter,  \* argument of parse_filter
    filter_out,  \* outcome of parse_filter: [raised, value]
    name,        \* argument of get_queue_name / parse_destination_name
    queue_name,  \* result of get_queue_name
    dest_info,   \* result of parse_destination_name
    url,         \* argument of parse_url
    url_info,    \* result of parse_url
    report_title, \* create_report: the title
    report,      \* create_report: the rows, each a list of cells
    col_names,   \* create_report: the column names
    is_sorted,   \* create_report: sort the rows
    is_total,    \* create_report: add a row of totals
    printed,     \* what log and log_report have written, in order
    argv,        \* sys.argv
    domain,      \* the server runtimes of the domain, their JMS servers and destinations
    loc,         \* the local variables of the operation that runs
    calls,       \* the calls made to the destinations of the broker, in order
    asked        \* the prompts of raw_input and their answers, in order

parserVars == <<tz, msg_filter, filter_out, name, queue_name, dest_info>>
urlVars == <<url, url_info>>
reportVars == <<report_title, report, col_names, is_sorted, is_total, printed>>

opVars == <<argv, domain, loc, calls, asked>>

vars == <<pc, parserVars, urlVars, reportVars, opVars>>

\* a dict without keys
NoDict == [k \in {} |-> <<>>]

\* the variables of the functions a specification does not run
IdleUrl == url = <<>> /\ url_info = NoDict
IdleReport ==
    /\ report_title = <<>>
    /\ report = <<>>
    /\ col_names = <<>>
    /\ is_sorted = FALSE
    /\ is_total = FALSE
    /\ printed = <<>>
IdleOps ==
    /\ argv = <<>>
    /\ domain = <<>>
    /\ loc = NoDict
    /\ calls = <<>>
    /\ asked = <<>>

(***************************************************************************)
(* Bounds of the model                                                     *)
(***************************************************************************)
\* number of pieces (text characters, timestamp literals) a filter is built of
MaxParts == 3
\* number of characters of a generated destination identifier
MaxNameLen == 7

(***************************************************************************)
(* Strings                                                                 *)
(***************************************************************************)
Digits == <<"0", "1", "2", "3", "4", "5", "6", "7", "8", "9">>

IsDigit(c) == \E i \in 1..10 : Digits[i] = c

DigitValue(c) == (CHOOSE i \in 1..10 : Digits[i] = c) - 1

RECURSIVE Flatten(_)
Flatten(ss) == IF ss = <<>> THEN <<>> ELSE Head(ss) \o Flatten(Tail(ss))

From(s, i) == SubSeq(s, i, Len(s))

\* int(digits)
RECURSIVE ToInt(_)
ToInt(ds) ==
    IF ds = <<>> THEN 0
    ELSE 10 * ToInt(SubSeq(ds, 1, Len(ds) - 1)) + DigitValue(ds[Len(ds)])

\* str(n) for n >= 0
RECURSIVE NatToStr(_)
NatToStr(n) ==
    IF n < 10 THEN <<Digits[n + 1]>>
    ELSE NatToStr(n \div 10) \o <<Digits[(n % 10) + 1]>>

Pad3(n) == <<Digits[(n \div 100) + 1], Digits[((n \div 10) % 10) + 1], Digits[(n % 10) + 1]>>

(***************************************************************************)
(* Regular expressions                                                     *)
(***************************************************************************)
\* one pattern atom against one character
AtomMatches(atom, c) ==
    CASE atom = "\\d" -> IsDigit(c)
      [] atom = "."   -> c # "\n"
      [] atom = "\\." -> c = "."
      [] OTHER        -> c = atom

\* a sequence of atoms matches s at position i
MatchAt(s, i, pat) ==
    /\ i >= 1
    /\ i + Len(pat) - 1 <= Len(s)
    /\ \A k \in 1..Len(pat) : AtomMatches(pat[k], s[i + k - 1])

D4 == <<"\\d", "\\d", "\\d", "\\d">>
D2 == <<"\\d", "\\d">>

\* the shortest pattern cut short after the date: \d{4}-\d{2}-\d{2}
TsPatternDateOnly == D4 \o <<"-">> \o D2 \o <<"-">> \o D2

\* \d{4}-\d{2}-\d{2}.\d{2}:\d{2}
TsPatternHM == D4 \o <<"-">> \o D2 \o <<"-">> \o D2 \o <<".">> \o D2 \o <<":">> \o D2
\* \d{4}-\d{2}-\d{2}.\d{2}:\d{2}:\d{2}
TsPatternHMS == TsPatternHM \o <<":">> \o D2
\* \d{4}-\d{2}-\d{2}.\d{2}:\d{2}:\d{2}\.\d{3}
TsPatternFull == TsPatternHMS \o <<"\\.", "\\d", "\\d", "\\d">>

\* the characters of the class ['|"]
QuoteClass == {"'", "|", "\""}

NoClass == {}

Max(S) == CHOOSE x \in S : \A y \in S : y <= x
Min(S) == CHOOSE x \in S : \A y \in S : x <= y

\* the positions of s at which the atoms of pat match
Hits(s, pat) == {j \in 1..Len(s) : MatchAt(s, j, pat)}

\* the positions of the line feeds of s, which '.' does not match
LineFeeds(s) == {k \in 1..Len(s) : s[k] = "\n"}

\* the ends e of a group (.*) that starts at start, such that a run of class
\* characters and then pat follow it
GroupEnds(s, start, class, hits, feeds) ==
    {e \in (start - 1)..Len(s) :
        /\ feeds \cap (start..e) = {}
        /\ \E j \in hits : j > e /\ \A k \in (e + 1)..(j - 1) : s[k] \in class}

\* Search with a lazy group 1, "(.*?)": the first match instead of the last
SearchLazy(s, class, pat) ==
    LET hits == Hits(s, pat) IN
    IF hits = {} \/ 1 \in LineFeeds(s)
    THEN [found |-> FALSE, group1 |-> <<>>, group2 |-> <<>>]
    ELSE LET e == Min({g \in GroupEnds(s, 1, class, hits, LineFeeds(s)) : TRUE})
             j == Max({h \in hits : h > e /\ \A k \in (e + 1)..(h - 1) : s[k] \in class})
         IN [found  |-> TRUE,
             group1 |-> SubSeq(s, 1, e),
             group2 |-> SubSeq(s, j, j + Len(pat) - 1)]

\* re.search("(.*)[class]*(pat)", s): the leftmost start, then the longest
\* group 1, then the longest run of class characters
Search(s, class, pat) ==
    LET hits   == Hits(s, pat)
        feeds  == LineFeeds(s)
        starts == {st \in 1..(Len(s) + 1) : GroupEnds(s, st, class, hits, feeds) # {}}
    IN IF hits = {} \/ starts = {}
       THEN [found |-> FALSE, group1 |-> <<>>, group2 |-> <<>>]
       ELSE LET st == Min(starts)
                e  == Max(GroupEnds(s, st, class, hits, feeds))
                j  == Max({h \in hits : h > e /\ \A k \in (e + 1)..(h - 1) : s[k] \in class})
            IN [found  |-> TRUE,
                group1 |-> SubSeq(s, st, e),
                group2 |-> SubSeq(s, j, j + Len(pat) - 1)]

(***************************************************************************)
(* get_milliseconds                                                        *)
(***************************************************************************)
\* "yyyy-MM-dd HH:mm:ss.SSS": a letter is a numeric field, the rest is literal
SdfPattern == <<"y", "-", "M", "-", "d", " ", "H", ":", "m", ":", "s", ".", "S">>

SdfFields == {"y", "M", "d", "H", "m", "s", "S"}

\* the length of the run of digits of s at position i
RECURSIVE DigitRun(_, _)
DigitRun(s, i) ==
    IF i <= Len(s) /\ IsDigit(s[i]) THEN 1 + DigitRun(s, i + 1) ELSE 0

\* SimpleDateFormat.parse: a numeric field takes the digits at hand, a literal
\* has to be there; an unparseable text gives ok = FALSE (ParseException)
RECURSIVE SdfParse(_, _, _, _)
SdfParse(s, i, pat, got) ==
    IF pat = <<>> THEN [ok |-> TRUE, fields |-> got]
    ELSE IF Head(pat) \in SdfFields
         THEN LET n == DigitRun(s, i) IN
              IF n = 0 THEN [ok |-> FALSE, fields |-> got]
              ELSE SdfParse(s, i + n, Tail(pat),
                            [got EXCEPT ![Head(pat)] = ToInt(SubSeq(s, i, i + n - 1))])
         ELSE IF i <= Len(s) /\ s[i] = Head(pat)
              THEN SdfParse(s, i + 1, Tail(pat), got)
              ELSE [ok |-> FALSE, fields |-> got]

NoFields == [k \in SdfFields |-> 0]

\* days from 1970-01-01 to the first day of month m (1..12) of year y
DaysToMonth(y, m) ==
    LET yy  == IF m <= 2 THEN y - 1 ELSE y
        era == yy \div 400
        yoe == yy - era * 400
        mp  == (m + 9) % 12
        doy == (153 * mp + 2) \div 5
        doe == yoe * 365 + yoe \div 4 - yoe \div 100 + doy
    IN era * 146097 + doe - 719468

\* the lenient calendar: a field out of its range rolls over into the next one.
\* The instant is kept as whole seconds and milliseconds: sec * 1000 + ms
\* with 0 <= ms < 1000
CalendarTime(f, zone) ==
    LET months == f["y"] * 12 + (f["M"] - 1)
        days   == DaysToMonth(months \div 12, (months % 12) + 1) + (f["d"] - 1)
        secs   == days * 86400 + f["H"] * 3600 + f["m"] * 60 + f["s"] - zone
    IN [sec |-> secs + (f["S"] \div 1000), ms |-> f["S"] % 1000]

\* str(long)
LongToStr(t) ==
    IF t.sec > 0 THEN NatToStr(t.sec) \o Pad3(t.ms)
    ELSE IF t.sec = 0 THEN NatToStr(t.ms)
    ELSE IF t.ms = 0 THEN <<"-">> \o NatToStr(-t.sec) \o Pad3(0)
    ELSE IF t.sec = -1 THEN <<"-">> \o NatToStr(1000 - t.ms)
    ELSE <<"-">> \o NatToStr(-t.sec - 1) \o Pad3(1000 - t.ms)

\* get_milliseconds(timestamp_str) in the time zone `zone`
GetMilliseconds(timestamp_str, zone) ==
    LET p == SdfParse(timestamp_str, 1, SdfPattern, NoFields) IN
    IF p.ok THEN [raised |-> FALSE, time |-> CalendarTime(p.fields, zone)]
    ELSE [raised |-> TRUE, time |-> [sec |-> 0, ms |-> 0]]

(***************************************************************************)
(* parse_filter                                                            *)
(***************************************************************************)
Raised == [raised |-> TRUE, value |-> <<>>]

Returned(v) == [raised |-> FALSE, value |-> v]

\* filter_part1 + str(get_milliseconds(filter_part2 + pad))
Rewrite(m, pad, zone) ==
    LET ms == GetMilliseconds(m.group2 \o pad, zone) IN
    IF ms.raised THEN Raised
    ELSE Returned(m.group1 \o LongToStr(ms.time))

\* parse_filter trying the shortest form first
ParseFilterShortFirst(f, zone) ==
    LET m1 == Search(f, QuoteClass, TsPatternFull)
        m2 == Search(f, NoClass, TsPatternHMS)
        m3 == Search(f, NoClass, TsPatternHM)
    IN IF m3.found THEN Rewrite(m3, <<":", "0", "0", ".", "0", "0", "0">>, zone)
       ELSE IF m2.found THEN Rewrite(m2, <<".", "0", "0", "0">>, zone)
       ELSE IF m1.found THEN Rewrite(m1, <<>>, zone)
       ELSE Returned(f)

\* parse_filter padding the hours:minutes form with the milliseconds only
ParseFilterPadSlip(f, zone) ==
    LET m1 == Search(f, QuoteClass, TsPatternFull)
        m2 == Search(f, NoClass, TsPatternHMS)
        m3 == Search(f, NoClass, TsPatternHM)
    IN IF m1.found THEN Rewrite(m1, <<>>, zone)
       ELSE IF m2.found THEN Rewrite(m2, <<".", "0", "0", "0">>, zone)
       ELSE IF m3.found THEN Rewrite(m3, <<".", "0", "0", "0">>, zone)
       ELSE Returned(f)

ParseFilter(f, zone) ==
    LET m1 == Search(f, QuoteClass, TsPatternFull)
        m2 == Search(f, NoClass, TsPatternHMS)
        m3 == Search(f, NoClass, TsPatternHM)
    IN IF m1.found THEN Rewrite(m1, <<>>, zone)
       ELSE IF m2.found THEN Rewrite(m2, <<".", "0", "0", "0">>, zone)
       ELSE IF m3.found THEN Rewrite(m3, <<":", "0", "0", ".", "0", "0", "0">>, zone)
       ELSE Returned(f)

(***************************************************************************)
(* get_queue_name                                                          *)
(***************************************************************************)
Contains(s, c) == \E k \in 1..Len(s) : s[k] = c

\* s.split(c)
RECURSIVE Split(_, _)
Split(s, c) ==
    IF ~Contains(s, c) THEN <<s>>
    ELSE LET k == Min({i \in 1..Len(s) : s[i] = c}) IN
         <<SubSeq(s, 1, k - 1)>> \o Split(From(s, k + 1), c)

Last(ss) == ss[Len(ss)]

\* get_queue_name looking for "!" before "@"
GetQueueNameBangFirst(n) ==
    LET q == IF Contains(n, "!") THEN Last(Split(n, "!"))
             ELSE IF Contains(n, "@") THEN Last(Split(n, "@"))
             ELSE n
    IN IF Contains(q, "/") THEN Last(Split(q, "/")) ELSE q

GetQueueName(n) ==
    LET q == IF Contains(n, "@") THEN Last(Split(n, "@"))
             ELSE IF Contains(n, "!") THEN Last(Split(n, "!"))
             ELSE n
    IN IF Contains(q, "/") THEN Last(Split(q, "/")) ELSE q

(***************************************************************************)
(* parse_destination_name                                                  *)
(***************************************************************************)
\* the ends e of a group (.+) that starts at pos and is followed by the
\* delimiter delims[1] and by the rest of the pattern
RECURSIVE PlusEnds(_, _, _)
PlusEnds(s, pos, delims) ==
    {e \in pos..(Len(s) - 1) :
        /\ \A k \in pos..e : s[k] # "\n"
        /\ s[e + 1] = Head(delims)
        /\ IF Len(delims) = 1
           THEN e + 2 <= Len(s) /\ s[e + 2] # "\n"
           ELSE PlusEnds(s, e + 2, Tail(delims)) # {}}

\* the text of a last group (\w+): up to the first character that is no word
RECURSIVE LineFromWord(_, _)
LineFromWord(s, pos) ==
    IF pos > Len(s) \/ s[pos] \in {"\n", "/", "!", "@"} THEN <<>>
    ELSE <<s[pos]>> \o LineFromWord(s, pos + 1)

\* the text of a last group (.+) that starts at pos: up to the end of the line
RECURSIVE LineFrom(_, _)
LineFrom(s, pos) ==
    IF pos > Len(s) \/ s[pos] = "\n" THEN <<>>
    ELSE <<s[pos]>> \o LineFrom(s, pos + 1)

\* the groups of a match that starts at pos, each as long as it can be
RECURSIVE PlusGroups(_, _, _)
PlusGroups(s, pos, delims) ==
    IF delims = <<>> THEN <<LineFrom(s, pos)>>
    ELSE LET e == Max(PlusEnds(s, pos, delims)) IN
         <<SubSeq(s, pos, e)>> \o PlusGroups(s, e + 2, Tail(delims))

\* re.search("(.+)d1(.+)d2...(.+)", s) for the delimiters d1, d2, ...
SearchPlus(s, delims) ==
    LET starts == {st \in 1..Len(s) : PlusEnds(s, st, delims) # {}} IN
    IF starts = {} THEN [found |-> FALSE, groups |-> <<>>]
    ELSE [found |-> TRUE, groups |-> PlusGroups(s, Min(starts), delims)]

\* parse_destination_name trying the shape (.+)!(.+) first
ParseDestinationNameLooseFirst(n) ==
    LET m1 == SearchPlus(n, <<"!", "@", "@">>)
        m2 == SearchPlus(n, <<"!", "@">>)
        m3 == SearchPlus(n, <<"!">>)
    IN IF m3.found
       THEN [jms_module |-> m3.groups[1], jndi_name |-> m3.groups[2]]
       ELSE [jndi_name |-> n]

\* parse_destination_name filling every key of its docstring, the absent
\* parts with an empty text
ParseDestinationNameAllKeys(n) ==
    LET m1 == SearchPlus(n, <<"!", "@", "@">>)
        m2 == SearchPlus(n, <<"!", "@">>)
        m3 == SearchPlus(n, <<"!">>)
    IN IF m1.found
       THEN [jms_module |-> m1.groups[1], jms_server |-> m1.groups[2],
             server |-> m1.groups[3], jndi_name |-> m1.groups[4]]
       ELSE IF m2.found
       THEN [jms_module |-> m2.groups[1], jms_server |-> m2.groups[2],
             server |-> <<>>, jndi_name |-> m2.groups[3]]
       ELSE IF m3.found
       THEN [jms_module |-> m3.groups[1], jms_server |-> <<>>,
             server |-> <<>>, jndi_name |-> m3.groups[2]]
       ELSE [jms_module |-> <<>>, jms_server |-> <<>>,
             server |-> <<>>, jndi_name |-> n]

ParseDestinationName(n) ==
    LET m1 == SearchPlus(n, <<"!", "@", "@">>)
        m2 == SearchPlus(n, <<"!", "@">>)
        m3 == SearchPlus(n, <<"!">>)
    IN IF m1.found
       THEN [jms_module |-> m1.groups[1], jms_server |-> m1.groups[2],
             server |-> m1.groups[3], jndi_name |-> m1.groups[4]]
       ELSE IF m2.found
       THEN [jms_module |-> m2.groups[1], jms_server |-> m2.groups[2],
             jndi_name |-> m2.groups[3]]
       ELSE IF m3.found
       THEN [jms_module |-> m3.groups[1], jndi_name |-> m3.groups[2]]
       ELSE [jndi_name |-> n]

(***************************************************************************)
(* The filters the model is run on                                         *)
(***************************************************************************)
\* date and time of day: year, month, day, hour, minute, second, millisecond
Dates ==
    { <<"2019", "01", "01", "00", "00", "00", "000">>,
      <<"1970", "01", "01", "00", "00", "00", "000">>,
      <<"2020", "02", "29", "23", "59", "59", "999">>,
      <<"2019", "13", "32", "25", "61", "61", "007">> }

Chars(w) ==
    CASE w = "2019" -> <<"2", "0", "1", "9">>
      [] w = "1970" -> <<"1", "9", "7", "0">>
      [] w = "2020" -> <<"2", "0", "2", "0">>
      [] w = "000"  -> <<"0", "0", "0">>
      [] w = "999"  -> <<"9", "9", "9">>
      [] w = "007"  -> <<"0", "0", "7">>
      [] w = "00"   -> <<"0", "0">>
      [] w = "01"   -> <<"0", "1">>
      [] w = "02"   -> <<"0", "2">>
      [] w = "13"   -> <<"1", "3">>
      [] w = "23"   -> <<"2", "3">>
      [] w = "25"   -> <<"2", "5">>
      [] w = "29"   -> <<"2", "9">>
      [] w = "32"   -> <<"3", "2">>
      [] w = "59"   -> <<"5", "9">>
      [] w = "61"   -> <<"6", "1">>

Separators == {" ", "T"}

TimeZones == {0, 3600}

TextChars == {"a", "'", "9"}

PartKinds == TextChars \cup {"DATE", "HM", "HMS", "FULL"}

DateText(d) == Chars(d[1]) \o <<"-">> \o Chars(d[2]) \o <<"-">> \o Chars(d[3])

PartText(kind, d, sep) ==
    LET hm == DateText(d) \o <<sep>> \o Chars(d[4]) \o <<":">> \o Chars(d[5]) IN
    CASE kind = "DATE" -> DateText(d)
      [] kind = "HM"   -> hm
      [] kind = "HMS"  -> hm \o <<":">> \o Chars(d[6])
      [] kind = "FULL" -> hm \o <<":">> \o Chars(d[6]) \o <<".">> \o Chars(d[7])
      [] OTHER         -> <<kind>>

PartSeqs == UNION {[1..n -> PartKinds] : n \in 0..MaxParts}

FilterText(ps, d, sep) == Flatten([k \in 1..Len(ps) |-> PartText(ps[k], d, sep)])

\* the example of the prompt: JMSTimestamp > '2019-01-01 00:00:00.000'
PromptExample ==
    <<"J", "M", "S", "T", "i", "m", "e", "s", "t", "a", "m", "p", " ", ">", " ", "'">>
    \o FilterText(<<"FULL", "'">>, <<"2019", "01", "01", "00", "00", "00", "000">>, " ")

(***************************************************************************)
(* The specification of parse_filter                                       *)
(***************************************************************************)
NoResult == [raised |-> FALSE, value |-> <<>>]

InitFilter ==
    /\ pc = "start"
    /\ tz \in TimeZones
    /\ \/ \E ps \in PartSeqs, d \in Dates, sep \in Separators :
              msg_filter = FilterText(ps, d, sep)
       \/ msg_filter = PromptExample
    /\ filter_out = NoResult
    /\ name = <<>>
    /\ queue_name = <<>>
    /\ dest_info = NoDict
    /\ IdleUrl
    /\ IdleReport
    /\ IdleOps

\* msg_filter = parse_filter(msg_filter)
parse_filter ==
    /\ pc = "start"
    /\ filter_out' = ParseFilter(msg_filter, tz)
    /\ pc' = "parse_filter"
    /\ UNCHANGED <<tz, msg_filter, name, queue_name, dest_info, urlVars, reportVars, opVars>>

NextFilter == parse_filter

SpecFilter == InitFilter /\ [][NextFilter]_vars

(***************************************************************************)
(* The identifiers the model is run on                                     *)
(***************************************************************************)
NameChars == {"q", "b", "!", "@", "/"}

GeneratedNames == UNION {[1..n -> NameChars] : n \in 0..MaxNameLen}

\* the identifiers of the documentation
NameQ1 == <<"M", "o", "d", "!", "S", "r", "v", "@", "H", "o", "s", "t", "@", "Q", "1">>
NameQ2 == <<"M", "o", "d", "!", "Q", "2">>
NameQ3 == <<"Q", "3">>
NameQ4 == <<"M", "o", "d", "!", "S", "r", "v", "@", "a", "/", "b", "/", "Q", "4">>
NameQ5 == <<"Q", "5">>
NameQ6 == <<"M", "o", "d", "!", "S", "r", "v", "@", "Q", "6">>

ExampleNames == {NameQ1, NameQ2, NameQ3, NameQ4, NameQ5, NameQ6}

(***************************************************************************)
(* The specification of get_queue_name and parse_destination_name          *)
(***************************************************************************)
InitDest ==
    /\ pc = "start"
    /\ tz = 0
    /\ msg_filter = <<>>
    /\ filter_out = NoResult
    /\ name \in GeneratedNames \cup ExampleNames
    /\ queue_name = <<>>
    /\ dest_info = NoDict
    /\ IdleUrl
    /\ IdleReport
    /\ IdleOps

\* queue_name = get_queue_name(name)
get_queue_name ==
    /\ pc = "start"
    /\ queue_name' = GetQueueName(name)
    /\ pc' = "get_queue_name"
    /\ UNCHANGED <<tz, msg_filter, filter_out, name, dest_info, urlVars, reportVars, opVars>>

\* dest_info = parse_destination_name(name)
parse_destination_name ==
    /\ pc = "start"
    /\ dest_info' = ParseDestinationName(name)
    /\ pc' = "parse_destination_name"
    /\ UNCHANGED <<tz, msg_filter, filter_out, name, queue_name, urlVars, reportVars, opVars>>

NextDest == get_queue_name \/ parse_destination_name

SpecDest == InitDest /\ [][NextDest]_vars

(***************************************************************************)
(* Timestamp literals, located by position (for the properties below)      *)
(***************************************************************************)
DigitsAt(s, i, n) == \A k \in i..(i + n - 1) : IsDigit(s[k])

\* s holds at position i a literal YYYY-MM-DD<sep>HH:MM of n = 16 characters,
\* YYYY-MM-DD<sep>HH:MM:SS of 19 or YYYY-MM-DD<sep>HH:MM:SS.mmm of 23
LiteralAt(s, i, n) ==
    /\ i >= 1
    /\ i + n - 1 <= Len(s)
    /\ DigitsAt(s, i, 4) /\ s[i + 4] = "-"
    /\ DigitsAt(s, i + 5, 2) /\ s[i + 7] = "-"
    /\ DigitsAt(s, i + 8, 2) /\ s[i + 10] # "\n"
    /\ DigitsAt(s, i + 11, 2) /\ s[i + 13] = ":"
    /\ DigitsAt(s, i + 14, 2)
    /\ n >= 19 => (s[i + 16] = ":" /\ DigitsAt(s, i + 17, 2))
    /\ n >= 23 => (s[i + 19] = "." /\ DigitsAt(s, i + 20, 3))

LiteralPositions(s) == {i \in 1..Len(s) : LiteralAt(s, i, 16)}

FormLen(s, i) ==
    IF LiteralAt(s, i, 23) THEN 23 ELSE IF LiteralAt(s, i, 19) THEN 19 ELSE 16

\* the literal at position i, in the full form
FullForm(s, i) ==
    SubSeq(s, i, i + FormLen(s, i) - 1) \o
    (CASE FormLen(s, i) = 23 -> <<>>
       [] FormLen(s, i) = 19 -> <<".", "0", "0", "0">>
       [] OTHER              -> <<":", "0", "0", ".", "0", "0", "0">>)

SpaceSeparated(s, i) == s[i + 10] = " "

\* str(get_milliseconds(...)) of the literal at position i
MillisText(s, i, zone) == LongToStr(GetMilliseconds(FullForm(s, i), zone).time)

Field(s, i, off, n) == ToInt(SubSeq(s, i + off, i + off + n - 1))

IsLeap(y) == (y % 4 = 0 /\ y % 100 # 0) \/ y % 400 = 0

DaysIn(y, m) ==
    IF m = 2 THEN (IF IsLeap(y) THEN 29 ELSE 28)
    ELSE IF m \in {4, 6, 9, 11} THEN 30 ELSE 31

\* the literal at position i names a date and a time of day of the calendar
RealCalendar(s, i) ==
    /\ Field(s, i, 5, 2) \in 1..12
    /\ Field(s, i, 8, 2) \in 1..DaysIn(Field(s, i, 0, 4), Field(s, i, 5, 2))
    /\ Field(s, i, 11, 2) <= 23
    /\ Field(s, i, 14, 2) <= 59
    /\ FormLen(s, i) >= 19 => Field(s, i, 17, 2) <= 59

RewrittenPosition(s) ==
    LET best == Max({FormLen(s, i) : i \in LiteralPositions(s)}) IN
    Max({i \in LiteralPositions(s) : FormLen(s, i) = best})

C3_OnlyLiteralReplaced ==
    \A i \in LiteralPositions(msg_filter) :
        (/\ pc = "parse_filter"
         /\ LiteralPositions(msg_filter) = {i}
         /\ SpaceSeparated(msg_filter, i))
        => filter_out = Returned(SubSeq(msg_filter, 1, i - 1) \o
                                 MillisText(msg_filter, i, tz) \o
                                 From(msg_filter, i + FormLen(msg_filter, i)))

\* C4: a string (the empty one included) without a date-shaped substring of
\* any of the three forms comes back unchanged.
C4_NoLiteralUnchanged ==
    (pc = "parse_filter" /\ LiteralPositions(msg_filter) = {})
    => filter_out = Returned(msg_filter)

C4_Witness ==
    /\ pc = "parse_filter"
    /\ LiteralPositions(msg_filter) = {}
    /\ \E i \in 1..Len(msg_filter) :
           /\ i + 9 <= Len(msg_filter)
           /\ DigitsAt(msg_filter, i, 4) /\ msg_filter[i + 4] = "-"
           /\ DigitsAt(msg_filter, i + 5, 2) /\ msg_filter[i + 7] = "-"
           /\ DigitsAt(msg_filter, i + 8, 2)
    /\ filter_out = Returned(msg_filter)

\* the filter ends with a literal of n characters, separated by a space,
\* after a prefix that holds no timestamp-shaped text
EndsWithLiteral(s, n) ==
    /\ LiteralAt(s, Len(s) - n + 1, n)
    /\ SpaceSeparated(s, Len(s) - n + 1)
    /\ LiteralPositions(s) = {Len(s) - n + 1}

\* C5: the shorter forms are normalized as if padded to the full form:
\* p + 'D HH:MM' gives what p + 'D HH:MM:00' and p + 'D HH:MM:00.000' give,
\* and p + 'D HH:MM:SS' gives what p + 'D HH:MM:SS.000' gives.
C5_ShortFormsAsPadded ==
    /\ (pc = "parse_filter" /\ EndsWithLiteral(msg_filter, 16))
       => /\ filter_out = ParseFilter(msg_filter \o <<":", "0", "0">>, tz)
          /\ filter_out = ParseFilter(msg_filter \o <<":", "0", "0", ".", "0", "0", "0">>, tz)
    /\ (pc = "parse_filter" /\ EndsWithLiteral(msg_filter, 19))
       => filter_out = ParseFilter(msg_filter \o <<".", "0", "0", "0">>, tz)

C5_Witness ==
    /\ pc = "parse_filter"
    /\ EndsWithLiteral(msg_filter, 16)
    /\ Len(msg_filter) > 16
    /\ ~filter_out.raised
    /\ filter_out = ParseFilter(msg_filter \o <<":", "0", "0">>, tz)

\* C6: a literal that has the digit pattern but names no date and time of
\* the calendar (month 13, day 32) makes get_milliseconds fail, and
\* parse_filter returns no rewritten filter.
C6_UnrealDateRaises ==
    \A i \in LiteralPositions(msg_filter) :
        (/\ pc = "parse_filter"
         /\ LiteralPositions(msg_filter) = {i}
         /\ ~RealCalendar(msg_filter, i))
        => filter_out.raised

(***************************************************************************)
(* Properties of get_queue_name and parse_destination_name                 *)
(***************************************************************************)
Positions(s, c) == {k \in 1..Len(s) : s[k] = c}

\* what follows the last c of s
AfterLast(s, c) == From(s, Max(Positions(s, c)) + 1)

ShortName(s) ==
    LET base == IF Positions(s, "@") # {} THEN AfterLast(s, "@")
                ELSE IF Positions(s, "!") # {} THEN AfterLast(s, "!")
                ELSE s
    IN IF Positions(base, "/") # {} THEN AfterLast(base, "/") ELSE base

\* C7: get_queue_name returns the last '@'-separated segment if there is an
\* '@', otherwise the last '!'-separated segment if there is a '!', otherwise
\* the string itself, and of that the last '/'-separated segment if it holds
\* a '/': 'Mod!Srv@Host@Q1' gives 'Q1', 'Mod!Q2' gives 'Q2', 'Q3' gives 'Q3'
\* and 'Mod!Srv@a/b/Q4' gives 'Q4'.
C7_ShortNameIsLastSegment ==
    pc = "get_queue_name"
    => /\ queue_name = ShortName(name)
       /\ name = NameQ1 => queue_name = <<"Q", "1">>
       /\ name = NameQ2 => queue_name = <<"Q", "2">>
       /\ name = NameQ3 => queue_name = <<"Q", "3">>
       /\ name = NameQ4 => queue_name = <<"Q", "4">>

C7_Witness ==
    /\ pc = "get_queue_name"
    /\ name = NameQ4
    /\ queue_name = <<"Q", "4">>

\* C8: for non-empty components M, S, H, Q without '!' and '@',
\* parse_destination_name returns for 'M!S@H@Q' exactly {jms_module: M,
\* jms_server: S, server: H, jndi_name: Q}, for 'M!S@Q' exactly {jms_module: M,
\* jms_server: S, jndi_name: Q}, for 'M!Q' exactly {jms_module: M,
\* jndi_name: Q} and for 'Q' exactly {jndi_name: Q}.
C8_ShapesDecomposed ==
    LET n     == Len(name)
        bangs == Positions(name, "!")
        ats   == Positions(name, "@")
    IN pc = "parse_destination_name"
       => /\ \A b \in bangs, a1 \in ats, a2 \in ats :
                (bangs = {b} /\ ats = {a1, a2} /\ 1 < b /\ b + 1 < a1 /\ a1 + 1 < a2 /\ a2 < n)
                => dest_info = [jms_module |-> SubSeq(name, 1, b - 1),
                                jms_server |-> SubSeq(name, b + 1, a1 - 1),
                                server     |-> SubSeq(name, a1 + 1, a2 - 1),
                                jndi_name  |-> From(name, a2 + 1)]
          /\ \A b \in bangs, a \in ats :
                (bangs = {b} /\ ats = {a} /\ 1 < b /\ b + 1 < a /\ a < n)
                => dest_info = [jms_module |-> SubSeq(name, 1, b - 1),
                                jms_server |-> SubSeq(name, b + 1, a - 1),
                                jndi_name  |-> From(name, a + 1)]
          /\ \A b \in bangs :
                (bangs = {b} /\ ats = {} /\ 1 < b /\ b < n)
                => dest_info = [jms_module |-> SubSeq(name, 1, b - 1),
                                jndi_name  |-> From(name, b + 1)]
          /\ (bangs = {} /\ ats = {} /\ n > 0)
                => dest_info = [jndi_name |-> name]

C8_Witness ==
    /\ pc = "parse_destination_name"
    /\ name = NameQ1
    /\ dest_info = [jms_module |-> <<"M", "o", "d">>,
                    jms_server |-> <<"S", "r", "v">>,
                    server     |-> <<"H", "o", "s", "t">>,
                    jndi_name  |-> <<"Q", "1">>]

\* the parts of a descriptor joined in order with their delimiters
Joined(d) ==
    (IF "jms_module" \in DOMAIN d THEN d["jms_module"] \o <<"!">> ELSE <<>>) \o
    (IF "jms_server" \in DOMAIN d THEN d["jms_server"] \o <<"@">> ELSE <<>>) \o
    (IF "server" \in DOMAIN d THEN d["server"] \o <<"@">> ELSE <<>>) \o
    d["jndi_name"]

\* C9: the shape chosen covers the whole identifier: for a single-line
\* identifier, joining the returned parts in order with their delimiters
\* gives back exactly the input.
C9_PartsCoverIdentifier ==
    (pc = "parse_destination_name" /\ Positions(name, "\n") = {})
    => Joined(dest_info) = name

C9_Witness ==
    /\ pc = "parse_destination_name"
    /\ Cardinality(Positions(name, "@")) >= 3
    /\ Cardinality(Positions(name, "!")) >= 2
    /\ "server" \in DOMAIN dest_info
    /\ Joined(dest_info) = name

\* C10: the result always has the key jndi_name, its key set is one of four
\* nested sets (server only with jms_server, jms_server only with
\* jms_module), and for a non-empty input every value is non-empty.
C10_NestedKeys ==
    pc = "parse_destination_name"
    => /\ "jndi_name" \in DOMAIN dest_info
       /\ DOMAIN dest_info \in {{"jndi_name"},
                                {"jms_module", "jndi_name"},
                                {"jms_module", "jms_server", "jndi_name"},
                                {"jms_module", "jms_server", "server", "jndi_name"}}
       /\ name # <<>> => \A k \in DOMAIN dest_info : dest_info[k] # <<>>

C10_Witness ==
    /\ pc = "parse_destination_name"
    /\ Positions(name, "@") # {}
    /\ DOMAIN dest_info = {"jms_module", "jndi_name"}
    /\ dest_info["jms_module"] # <<>>
    /\ dest_info["jndi_name"] # <<>>

(***************************************************************************)
(* parse_url                                                               *)
(***************************************************************************)
Letters ==
    {"a", "b", "c", "d", "e", "f", "g", "h", "i", "j", "k", "l", "m",
     "n", "o", "p", "q", "r", "s", "t", "u", "v", "w", "x", "y", "z",
     "A", "B", "C", "D", "E", "F", "G", "H", "I", "J", "K", "L", "M",
     "N", "O", "P", "Q", "R", "S", "T", "U", "V", "W", "X", "Y", "Z"}

\* the characters \d matches and the characters \w matches
DigitChars == {Digits[i] : i \in 1..10}
WordChars == Letters \cup DigitChars \cup {"_"}

\* where the longest run of characters of cls that starts at i ends
RunEnd(s, i, cls) ==
    LET stops == {k \in i..Len(s) : s[k] \notin cls}
    IN  IF stops = {} THEN Len(s) ELSE Min(stops) - 1

\* where the run of characters of cls that ends at i starts
RunStart(s, i, cls) ==
    LET stops == {k \in 1..i : s[k] \notin cls}
    IN  IF stops = {} THEN 1 ELSE Max(stops) + 1

\* the three expressions of parse_url: (\w+)://(.+) followed by one of
UrlTails == [port |-> ":(\\d+)", portpath |-> ":(\\d+)/(\\w*)", path |-> "/(\\w+)"]

\* the tail of an expression matches behind a hostname that ends at e
TailMatches(s, e, kind) ==
    CASE kind = "port" ->
             /\ e + 2 <= Len(s)
             /\ s[e + 1] = ":"
             /\ IsDigit(s[e + 2])
      [] kind = "portpath" ->
             /\ e + 2 <= Len(s)
             /\ s[e + 1] = ":"
             /\ IsDigit(s[e + 2])
             /\ RunEnd(s, e + 2, DigitChars) + 1 <= Len(s)
             /\ s[RunEnd(s, e + 2, DigitChars) + 1] = "/"
      [] kind = "path" ->
             /\ e + 2 <= Len(s)
             /\ s[e + 1] = "/"
             /\ s[e + 2] \in WordChars

\* the hostnames (.+) can match from h on: no line feed, the tail behind
HostEnds(s, h, kind) ==
    {e \in h..Len(s) : /\ \A k \in h..e : s[k] # "\n"
                       /\ TailMatches(s, e, kind)}

\* the positions of "://" behind a word, from which the expression matches
SchemeEnds(s, kind) ==
    {p \in 2..(Len(s) - 3) : /\ s[p] = ":" /\ s[p + 1] = "/" /\ s[p + 2] = "/"
                             /\ s[p - 1] \in WordChars
                             /\ HostEnds(s, p + 3, kind) # {}}

\* re.search of one expression: leftmost match, every group greedy
UrlSearch(s, kind) ==
    IF SchemeEnds(s, kind) = {}
    THEN [found |-> FALSE, protocol |-> <<>>, hostname |-> <<>>,
          port |-> <<>>, path |-> <<>>]
    ELSE LET p  == Min(SchemeEnds(s, kind))
             e  == Max(HostEnds(s, p + 3, kind))
             d  == RunEnd(s, e + 2, DigitChars)
         IN  [found    |-> TRUE,
              protocol |-> SubSeq(s, RunStart(s, p - 1, WordChars), p - 1),
              hostname |-> SubSeq(s, p + 3, e),
              port     |-> IF kind = "path" THEN <<>> ELSE SubSeq(s, e + 2, d),
              path     |-> CASE kind = "port" -> <<>>
                             [] kind = "portpath" ->
                                    SubSeq(s, d + 2, RunEnd(s, d + 2, WordChars))
                             [] kind = "path" ->
                                    SubSeq(s, e + 2, RunEnd(s, e + 2, WordChars))]

\* parse_url with its last return replaced by an empty dict
ParseUrlNoFallback(u) ==
    LET m1 == UrlSearch(u, "port")
        m3 == UrlSearch(u, "path")
    IN  IF m1.found
        THEN [protocol |-> m1.protocol, hostname |-> m1.hostname, port |-> m1.port]
        ELSE IF m3.found
        THEN [protocol |-> m3.protocol, hostname |-> m3.hostname, path |-> m3.path]
        ELSE NoDict

ParseUrl(u) ==
    LET m1 == UrlSearch(u, "port")
        m2 == UrlSearch(u, "portpath")
        m3 == UrlSearch(u, "path")
    IN  IF m1.found
        THEN [protocol |-> m1.protocol, hostname |-> m1.hostname, port |-> m1.port]
        ELSE IF m2.found
        THEN [protocol |-> m2.protocol, hostname |-> m2.hostname,
              port |-> m2.port, path |-> m2.path]
        ELSE IF m3.found
        THEN [protocol |-> m3.protocol, hostname |-> m3.hostname, path |-> m3.path]
        ELSE [hostname |-> u]

(***************************************************************************)
(* The specification of parse_url                                          *)
(***************************************************************************)
\* number of pieces a generated url is built of
MaxUrlParts == 7

UrlPieces == {<<"t">>, <<"7">>, <<":">>, <<"/">>, <<":", "/", "/">>}

GeneratedUrls == {Flatten(ps) : ps \in UNION {[1..n -> UrlPieces] : n \in 0..MaxUrlParts}}

\* t3://localhost:7001 and t3://web.host:7001/console_1
UrlAdmin == <<"t", "3", ":", "/", "/", "l", "o", "c", "a", "l", "h", "o", "s", "t",
              ":", "7", "0", "0", "1">>
UrlConsole == <<"t", "3", ":", "/", "/", "w", "e", "b", ".", "h", "o", "s", "t",
                ":", "7", "0", "0", "1", "/", "c", "o", "n", "s", "o", "l", "e", "_", "1">>

InitUrl ==
    /\ pc = "start"
    /\ tz = 0
    /\ msg_filter = <<>>
    /\ filter_out = NoResult
    /\ name = <<>>
    /\ queue_name = <<>>
    /\ dest_info = NoDict
    /\ url \in GeneratedUrls \cup {UrlAdmin, UrlConsole}
    /\ url_info = NoDict
    /\ IdleReport
    /\ IdleOps

\* url_info = parse_url(url)
parse_url ==
    /\ pc = "start"
    /\ url_info' = ParseUrl(url)
    /\ pc' = "parse_url"
    /\ UNCHANGED <<parserVars, url, reportVars, opVars>>

NextUrl == parse_url

SpecUrl == InitUrl /\ [][NextUrl]_vars

(***************************************************************************)
(* Urls, taken apart by position (for the properties below)                *)
(***************************************************************************)
AllIn(s, a, b, cls) == a <= b /\ \A k \in a..b : s[k] \in cls

\* scheme://host:port/path with the scheme ending before p, the host before
\* c and the port before q; the host holds neither ':' nor '/'
FullUrlAt(s, p, c, q) ==
    /\ AllIn(s, 1, p - 1, WordChars)
    /\ p + 2 <= Len(s) /\ s[p] = ":" /\ s[p + 1] = "/" /\ s[p + 2] = "/"
    /\ p + 3 <= c - 1 /\ \A k \in (p + 3)..(c - 1) : s[k] \notin {":", "/", "\n"}
    /\ c <= Len(s) /\ s[c] = ":"
    /\ AllIn(s, c + 1, q - 1, DigitChars)
    /\ q <= Len(s) /\ s[q] = "/"
    /\ AllIn(s, q + 1, Len(s), WordChars)

\* somewhere in s: a word character, "://", at least one character, and then
\* ':' and a digit or '/' and a word character
HasUrlShape(s) ==
    \E p \in 2..Len(s), c \in 1..Len(s) :
        /\ s[p - 1] \in WordChars
        /\ p + 2 <= Len(s) /\ s[p] = ":" /\ s[p + 1] = "/" /\ s[p + 2] = "/"
        /\ c >= p + 4 /\ c + 1 <= Len(s)
        /\ \/ s[c] = ":" /\ IsDigit(s[c + 1])
           \/ s[c] = "/" /\ s[c + 1] \in WordChars

UrlKeys == {"protocol", "hostname", "port", "path"}

\* C11: parse_url of a url of the form scheme://host:port/path returns the
\* protocol, the hostname, the port and also the path
C11_FullUrlHasPath ==
    pc = "parse_url" =>
        \A p \in 1..Len(url), c \in 1..Len(url), q \in 1..Len(url) :
            FullUrlAt(url, p, c, q) =>
                /\ DOMAIN url_info = UrlKeys
                /\ url_info.protocol = SubSeq(url, 1, p - 1)
                /\ url_info.hostname = SubSeq(url, p + 3, c - 1)
                /\ url_info.port = SubSeq(url, c + 1, q - 1)
                /\ url_info.path = SubSeq(url, q + 1, Len(url))

\* C12: the keys parse_url returns are among protocol, hostname, port and
\* path, hostname is always one of them, and a url that has none of the
\* three shapes comes back whole as the hostname, the only key
C12_HostnameAlways ==
    pc = "parse_url" =>
        /\ DOMAIN url_info \subseteq UrlKeys
        /\ "hostname" \in DOMAIN url_info
        /\ ~HasUrlShape(url) => url_info = [hostname |-> url]

C12_Witness ==
    /\ pc = "parse_url"
    /\ Len(url) >= 4
    /\ \E p \in 2..(Len(url) - 3) : SubSeq(url, p, p + 2) = <<":", "/", "/">>
    /\ ~HasUrlShape(url)
    /\ url_info = [hostname |-> url]

(***************************************************************************)
(* create_report, is_all_int, log, log_report                              *)
(* A cell of a report is an int or a str: [int, n, s].  What log and       *)
(* log_report write is kept in one list, a [kind, level, text] per line.   *)
(***************************************************************************)
IntCell(n) == [int |-> TRUE, n |-> n, s |-> <<>>]
StrCell(s) == [int |-> FALSE, n |-> 0, s |-> s]

\* str(n)
IntToStr(n) == IF n < 0 THEN <<"-">> \o NatToStr(0 - n) ELSE NatToStr(n)

\* str(item)
Str(cell) == IF cell.int THEN IntToStr(cell.n) ELSE cell.s

\* not item
Falsy(cell) == IF cell.int THEN cell.n = 0 ELSE cell.s = <<>>

\* the printable characters in the order of their codes: 32 to 95, 97 to 126
AsciiLow ==
    <<" ", "!", "\"", "#", "$", "%", "&", "'", "(", ")", "*", "+",
      ",", "-", ".", "/", "0", "1", "2", "3", "4", "5", "6", "7",
      "8", "9", ":", ";", "<", "=", ">", "?", "@", "A", "B", "C",
      "D", "E", "F", "G", "H", "I", "J", "K", "L", "M", "N", "O",
      "P", "Q", "R", "S", "T", "U", "V", "W", "X", "Y", "Z", "[",
      "\\", "]", "^", "_">>

AsciiHigh ==
    <<"a", "b", "c", "d", "e", "f", "g", "h", "i", "j", "k", "l",
      "m", "n", "o", "p", "q", "r", "s", "t", "u", "v", "w", "x",
      "y", "z", "{", "|", "}", "~">>

\* ord(c)
Ord(c) ==
    IF \E i \in 1..Len(AsciiLow) : AsciiLow[i] = c
    THEN 31 + CHOOSE i \in 1..Len(AsciiLow) : AsciiLow[i] = c
    ELSE 96 + CHOOSE i \in 1..Len(AsciiHigh) : AsciiHigh[i] = c

\* a < b putting the shorter str first
StrLessShortFirst(a, b) ==
    \/ Len(a) < Len(b)
    \/ /\ Len(a) = Len(b)
       /\ \E k \in 1..Len(a) : /\ Ord(a[k]) < Ord(b[k])
                               /\ \A j \in 1..(k - 1) : a[j] = b[j]

\* a < b for two str
StrLess(a, b) ==
    LET n     == Min({Len(a), Len(b)})
        diffs == {k \in 1..n : a[k] # b[k]}
    IN  IF diffs = {} THEN Len(a) < Len(b)
        ELSE Ord(a[Min(diffs)]) < Ord(b[Min(diffs)])

\* a < b for two lists of str
RowLess(a, b) ==
    LET n     == Min({Len(a), Len(b)})
        diffs == {k \in 1..n : a[k] # b[k]}
    IN  IF diffs = {} THEN Len(a) < Len(b)
        ELSE StrLess(a[Min(diffs)], b[Min(diffs)])

\* list.insert(i, x), i counted from 0
InsertAt(rows, i, x) == SubSeq(rows, 1, i) \o <<x>> \o SubSeq(rows, i + 1, Len(rows))

\* list.sort()
RECURSIVE SortRows(_)
SortRows(rows) ==
    IF rows = <<>> THEN <<>>
    ELSE LET done   == SortRows(Tail(rows))
             before == {i \in 1..Len(done) : ~RowLess(Head(rows), done[i])}
         IN  InsertAt(done, IF before = {} THEN 0 ELSE Max(before), Head(rows))

\* zip(*report)[x]
Column(rows, x) == [r \in 1..Len(rows) |-> rows[r][x]]

\* is_all_int taking a str of digits for an int
IsAllDigits(column) ==
    \A i \in 1..Len(column) :
        \/ column[i].int
        \/ column[i].s # <<>> /\ \A k \in 1..Len(column[i].s) : IsDigit(column[i].s[k])

IsAllInt(column) == \A i \in 1..Len(column) : column[i].int

NumericColumns(rows) == {x \in 1..Len(rows[1]) : IsAllInt(Column(rows, x))}

\* sum(column)
RECURSIVE Sum(_)
Sum(column) == IF column = <<>> THEN 0 ELSE Head(column).n + Sum(Tail(column))

TotalLabel(n) == <<"T", "O", "T", "A", "L", " ", "(">> \o NatToStr(n) \o <<")">>

TotalsRow(rows) ==
    LET raw == [x \in 1..Len(rows[1]) |->
                   IF x \in NumericColumns(rows)
                   THEN IntCell(Sum(Column(rows, x))) ELSE StrCell(<<>>)]
    IN  [x \in 1..Len(rows[1]) |->
            IF x = 1 /\ Falsy(raw[1]) THEN TotalLabel(Len(rows)) ELSE Str(raw[x])]

\* the widths of the columns of the data rows alone
ColWidthsOfData(rows) ==
    [x \in 1..Len(rows[1]) |-> Max({Len(rows[r][x]) : r \in 2..Len(rows)})]

\* [max(map(len, col)) for col in zip(*report_str)]
ColWidths(rows) ==
    [x \in 1..Len(rows[1]) |-> Max({Len(rows[r][x]) : r \in 1..Len(rows)})]

\* [ch * width for width in col_widths]
Underline(ch, widths) == [x \in 1..Len(widths) |-> [k \in 1..widths[x] |-> ch]]

\* the borders, with the second thin one put behind the totals
BordersBelowTotals(rows, widths, total) ==
    LET r1 == InsertAt(rows, 1, Underline("-", widths))
        r2 == InsertAt(r1, 0, Underline("=", widths))
        r3 == Append(r2, Underline("=", widths))
    IN  IF total THEN InsertAt(r3, Len(r3) - 1, Underline("-", widths)) ELSE r3

\* the header and the rows between their borders
Borders(rows, widths, total) ==
    LET r1 == InsertAt(rows, 1, Underline("-", widths))
        r2 == InsertAt(r1, 0, Underline("=", widths))
        r3 == Append(r2, Underline("=", widths))
    IN  IF total THEN InsertAt(r3, Len(r3) - 2, Underline("-", widths)) ELSE r3

Spaces(n) == [k \in 1..n |-> " "]

\* str.strip() of a text of one line: without the spaces around it
Strip(text) ==
    LET inked == {k \in 1..Len(text) : text[k] # " "}
    IN  IF inked = {} THEN <<>> ELSE SubSeq(text, Min(inked), Max(inked))

\* str.rjust(width) and str.ljust(width)
Rjust(text, width) == IF Len(text) >= width THEN text ELSE Spaces(width - Len(text)) \o text
Ljust(text, width) == IF Len(text) >= width THEN text ELSE text \o Spaces(width - Len(text))

\* " ".join(cells)
RECURSIVE Join(_)
Join(cells) ==
    IF cells = <<>> THEN <<>>
    ELSE IF Len(cells) = 1 THEN cells[1]
    ELSE cells[1] \o <<" ">> \o Join(Tail(cells))

Adjust(row, widths, numeric) ==
    Join([x \in 1..Len(row) |-> IF x \in numeric THEN Rjust(row[x], widths[x])
                                                ELSE Ljust(row[x], widths[x])])

\* a line of log written by log_report
LogThroughReport(level, text) == [kind |-> "report", level |-> level, text |-> text]

\* what log, log_report and print("") write
LogLine(level, text) == [kind |-> "log", level |-> level, text |-> text]
ReportLine(text) == [kind |-> "report", level |-> "", text |-> text]
BlankLine == [kind |-> "blank", level |-> "", text |-> <<>>]

NoResultsText == 
    <<"T", "h", "e", " ", "s", "e", "a", "r", "c", "h", " ", "r", "e", "t", "u", "r", "n", "e", "d", " ">>
    \o <<"n", "o", " ", "r", "e", "s", "u", "l", "t", "s", ".">>

CreateReport(title, rows, names, sorted, total) ==
    IF rows = <<>> THEN <<LogLine("INFO", NoResultsText)>>
    ELSE LET numeric  == NumericColumns(rows)
             strs     == [r \in 1..Len(rows) |-> [x \in 1..Len(rows[r]) |-> Str(rows[r][x])]]
             ordered  == IF sorted THEN SortRows(strs) ELSE strs
             totalled == IF total THEN Append(ordered, TotalsRow(rows)) ELSE ordered
             headed   == InsertAt(totalled, 0, names)
             widths   == ColWidths(headed)
             framed   == Borders(headed, widths, total)
         IN  <<BlankLine, ReportLine(title)>>
             \o [r \in 1..Len(framed) |-> ReportLine(Adjust(framed[r], widths, numeric))]
             \o <<BlankLine>>

(***************************************************************************)
(* The specification of create_report                                      *)
(***************************************************************************)
\* number of rows of a report
MaxRows == 2

Cells == {IntCell(0), IntCell(9), IntCell(10), StrCell(<<"B">>), StrCell(<<"1", "0">>)}

Titles == {<<"R", "E", "P", "O", "R", "T">>, <<"-">>}

Names == <<<<"N">>, <<"C", "o", "u", "n", "t">>>>

InitReport ==
    /\ pc = "start"
    /\ tz = 0
    /\ msg_filter = <<>>
    /\ filter_out = NoResult
    /\ name = <<>>
    /\ queue_name = <<>>
    /\ dest_info = NoDict
    /\ IdleUrl
    /\ report_title \in Titles
    /\ \E w \in 1..Len(Names), n \in 0..MaxRows :
           /\ col_names = SubSeq(Names, 1, w)
           /\ report \in [1..n -> [1..w -> Cells]]
    /\ is_sorted \in BOOLEAN
    /\ is_total \in BOOLEAN
    /\ printed = <<>>
    /\ IdleOps

\* create_report(report_title, report, col_names, is_sorted, is_total)
create_report ==
    /\ pc = "start"
    /\ printed' = CreateReport(report_title, report, col_names, is_sorted, is_total)
    /\ pc' = "create_report"
    /\ UNCHANGED <<parserVars, urlVars, report_title, report, col_names, is_sorted, is_total, opVars>>

NextReport == create_report

SpecReport == InitReport /\ [][NextReport]_vars

(***************************************************************************)
(* Reports, read back from what was written (for the properties below)     *)
(***************************************************************************)
\* the texts written by log_report, in order
RECURSIVE TextsOf(_, _)
TextsOf(lines, kind) ==
    IF lines = <<>> THEN <<>>
    ELSE (IF Head(lines).kind = kind THEN <<Head(lines).text>> ELSE <<>>)
         \o TextsOf(Tail(lines), kind)

ReportLines == TextsOf(printed, "report")

\* the lines of the table: all the report lines but the title
TableLines == Tail(ReportLines)

\* a rule: runs of ch, one space between two runs
IsRule(line, ch) ==
    /\ line # <<>>
    /\ line[1] = ch /\ line[Len(line)] = ch
    /\ \A k \in 1..Len(line) : line[k] \in {ch, " "}
    /\ \A k \in 1..(Len(line) - 1) : ~(line[k] = " " /\ line[k + 1] = " ")

\* the widths of the columns, read from a rule
WidthsOf(rule) == [x \in 1..Len(Split(rule, " ")) |-> Len(Split(rule, " ")[x])]

\* the widths of the columns of the table, read from its first line
RuleWidths == WidthsOf(TableLines[1])

\* where column x starts in a line of a table with these widths
RECURSIVE ColStart(_, _)
ColStart(w, x) == IF x = 1 THEN 1 ELSE ColStart(w, x - 1) + w[x - 1] + 1

\* what a line holds in column x, padding included
Segment(line, w, x) == SubSeq(line, ColStart(w, x), ColStart(w, x) + w[x] - 1)

\* the cells of a line of the table
CellsOf(line, w) == [x \in 1..Len(w) |-> Strip(Segment(line, w, x))]

RightJustified(seg) == seg # <<>> /\ (seg[Len(seg)] # " " \/ Strip(seg) = <<>>)
LeftJustified(seg) == seg # <<>> /\ (seg[1] # " " \/ Strip(seg) = <<>>)

\* the data rows as written, and the rows of the call as str
DataRowsWritten ==
    LET t == TableLines
        w == WidthsOf(t[1])
    IN  [r \in 1..Len(report) |-> CellsOf(t[3 + r], w)]

RowsAsStr == [r \in 1..Len(report) |-> [x \in 1..Len(col_names) |-> Str(report[r][x])]]

\* the number of times row occurs in rows
Count(rows, row) == Cardinality({r \in 1..Len(rows) : rows[r] = row})

\* every value of column x of the call is an int
IntColumn(x) == \A r \in 1..Len(report) : report[r][x].int

\* the sum of the ints of column x of the call
RECURSIVE SumUpTo(_, _)
SumUpTo(x, r) == IF r = 0 THEN 0 ELSE SumUpTo(x, r - 1) + report[r][x].n

\* a <= b in the order of the character codes, the shorter of two equal
\* beginnings first
RECURSIVE TextLeq(_, _)
TextLeq(a, b) ==
    IF a = <<>> THEN TRUE
    ELSE IF b = <<>> THEN FALSE
    ELSE IF Head(a) = Head(b) THEN TextLeq(Tail(a), Tail(b))
    ELSE Ord(Head(a)) < Ord(Head(b))

\* a <= b for two rows: decided by the first cell they differ in
RECURSIVE TupleLeq(_, _)
TupleLeq(a, b) ==
    IF a = <<>> THEN TRUE
    ELSE IF b = <<>> THEN FALSE
    ELSE IF Head(a) = Head(b) THEN TupleLeq(Tail(a), Tail(b))
    ELSE TextLeq(Head(a), Head(b))

\* the rows written are the rows of the call, each as often
SameRows(written) ==
    \A r \in 1..Len(report) :
        Count(written, RowsAsStr[r]) = Count(RowsAsStr, RowsAsStr[r])

\* the cells of the totals row as written
TotalsWritten == CellsOf(TableLines[Len(report) + 5], RuleWidths)

\* C13: create_report called with no rows writes no report line, only the
\* message 'The search returned no results.' to the log
C13_EmptyReportOnlyLogs ==
    pc = "create_report" /\ report = <<>> =>
        /\ ReportLines = <<>>
        /\ Len(printed) = 1
        /\ printed[1].kind = "log"
        /\ printed[1].level = "INFO"
        /\ printed[1].text = NoResultsText

C13_Witness ==
    /\ pc = "create_report"
    /\ report = <<>>
    /\ is_sorted /\ is_total
    /\ Len(col_names) = 2
    /\ printed # <<>>

\* C14: a column is numeric exactly when all its values are ints (a column
\* of digit strings is not); the cells of a numeric column, header and totals
\* included, are right-justified, the cells of every other column
\* left-justified
C14_NumericRightOthersLeft ==
    pc = "create_report" /\ report # <<>> =>
        LET t == TableLines
            w == WidthsOf(t[1])
        IN  /\ Len(w) = Len(col_names)
            /\ \A x \in 1..Len(col_names), l \in 1..Len(t) :
                   IF IntColumn(x)
                   THEN RightJustified(Segment(t[l], w, x))
                   ELSE LeftJustified(Segment(t[l], w, x))

C14_Witness ==
    /\ pc = "create_report"
    /\ Len(report) = 2 /\ Len(col_names) = 2 /\ is_total
    /\ report[1] = <<IntCell(9), StrCell(<<"1", "0">>)>>
    /\ report[2] = <<IntCell(10), StrCell(<<"1", "0">>)>>
    /\ Segment(TableLines[2], RuleWidths, 1) = <<" ", "N">>
    /\ \E l \in 4..5 : Segment(TableLines[l], RuleWidths, 1) = <<" ", "9">>
    /\ Segment(TableLines[4], RuleWidths, 2) = <<"1", "0", " ", " ", " ">>
    /\ Segment(TableLines[7], RuleWidths, 1) = <<"1", "9">>

\* C15: sorted, the data rows are the rows of the call in non-decreasing
\* lexicographic order of their cells as str (10 before 9); unsorted, they are
\* the rows of the call in the order of the call
C15_SortedRowsInStringOrder ==
    pc = "create_report" /\ report # <<>> =>
        LET written == DataRowsWritten
        IN  /\ SameRows(written)
            /\ is_sorted =>
                   \A r \in 1..(Len(report) - 1) : TupleLeq(written[r], written[r + 1])
            /\ ~is_sorted => written = RowsAsStr

C15_Witness ==
    /\ pc = "create_report"
    /\ is_sorted
    /\ report = <<<<IntCell(9)>>, <<IntCell(10)>>>>
    /\ DataRowsWritten = <<<<<<"1", "0">>>>, <<<<"9">>>>>>

\* C16: the totals row holds, column by column, the sum of a numeric column
\* (of a numeric first column too, whatever the sum), nothing for another
\* column, and TOTAL (n) in a first column that is not numeric
C16_TotalsRowSumsAndLabel ==
    pc = "create_report" /\ report # <<>> /\ is_total =>
        LET totals == TotalsWritten
        IN  /\ Len(TableLines) = Len(report) + 6
            /\ \A x \in 1..Len(col_names) :
                   totals[x] =
                       IF IntColumn(x) THEN IntToStr(SumUpTo(x, Len(report)))
                       ELSE IF x = 1 THEN TotalLabel(Len(report))
                       ELSE <<>>

\* the cells are what a totals row can hold: from the second column on the
\* sum or nothing, in the first the sum or TOTAL (n)
TotalsRowHolds(totals) ==
    /\ totals[1] \in {TotalLabel(Len(report)), IntToStr(SumUpTo(1, Len(report)))}
    /\ \A x \in 2..Len(col_names) :
           totals[x] = IF IntColumn(x) THEN IntToStr(SumUpTo(x, Len(report))) ELSE <<>>

\* C17: for n >= 1 rows the report lines are the title, a rule of '=', the
\* header, a rule of '-', the n data rows, with totals a rule of '-' and the
\* totals row, and a rule of '=': n + 5 lines, n + 7 with totals
C17_LinesInOrder ==
    pc = "create_report" /\ report # <<>> =>
        LET lines == ReportLines
            w     == WidthsOf(lines[2])
        IN  /\ Len(lines) = Len(report) + (IF is_total THEN 7 ELSE 5)
            /\ lines[1] = report_title
            /\ IsRule(lines[2], "=")
            /\ CellsOf(lines[3], w) = col_names
            /\ IsRule(lines[4], "-")
            /\ SameRows([r \in 1..Len(report) |-> CellsOf(lines[4 + r], w)])
            /\ is_total => /\ IsRule(lines[Len(report) + 5], "-")
                           /\ ~IsRule(lines[Len(report) + 6], "-")
                           /\ TotalsRowHolds(CellsOf(lines[Len(report) + 6], w))
            /\ IsRule(lines[Len(lines)], "=")

\* a totals row that sorts before a data row stays the last row
C17_Witness ==
    /\ pc = "create_report"
    /\ is_sorted /\ is_total
    /\ report = <<<<IntCell(9)>>, <<IntCell(10)>>>>
    /\ Len(ReportLines) = 9
    /\ CellsOf(ReportLines[6], RuleWidths) = <<<<"9">>>>
    /\ CellsOf(ReportLines[8], RuleWidths) = <<<<"1", "9">>>>

\* the length of a line of columns of these widths
LineLength(w) == Len(Join([x \in 1..Len(w) |-> Spaces(w[x])]))

\* C18: the width of a column is the greatest length of its header, its data
\* cells and its totals cell, no cell is cut, and every line of the table is
\* as long as the widths and one space between two columns
C18_WidthsAndLineLengths ==
    pc = "create_report" /\ report # <<>> =>
        LET t      == TableLines
            w      == WidthsOf(t[1])
            totals == CellsOf(t[Len(report) + 5], w)
        IN  /\ Len(w) = Len(col_names)
            /\ \A l \in 1..Len(t) : Len(t[l]) = LineLength(w)
            /\ CellsOf(t[2], w) = col_names
            /\ SameRows([r \in 1..Len(report) |-> CellsOf(t[3 + r], w)])
            /\ is_total => TotalsRowHolds(totals)
            /\ \A x \in 1..Len(col_names) :
                   w[x] = Max({Len(col_names[x])}
                              \cup {Len(Str(report[r][x])) : r \in 1..Len(report)}
                              \cup (IF is_total THEN {Len(totals[x])} ELSE {}))

\* one column as wide as its header, the other as wide as its totals cell
C18_Witness ==
    /\ pc = "create_report"
    /\ is_total
    /\ Len(report) = 2 /\ Len(col_names) = 2
    /\ report[1][1] = StrCell(<<"B">>)
    /\ report[1][2] = IntCell(9)
    /\ RuleWidths = <<9, 5>>
    /\ \A l \in 1..Len(TableLines) : Len(TableLines[l]) = 15

(***************************************************************************)
(* The operations on messages: delete_messages_from_queue, move_messages   *)
(* pc is "start", then the step of the operation that runs next, and at    *)
(* the end "returned", "raised" (an exception left the function) or        *)
(* "exited" (exit() was called).  Of the locals of the function, loc.bound *)
(* holds the names that were assigned.  A call to a destination either     *)
(* returns or raises; what it returns is the broker's choice.              *)
(***************************************************************************)
\* c.upper() and s.upper()
UpperChar(c) == IF Ord(c) \in 97..122 THEN AsciiLow[Ord(c) - 63] ELSE c
Upper(s) == [k \in 1..Len(s) |-> UpperChar(s[k])]

\* is_standalone, lines 1245-1248
IsStandalone == Len(argv) > 1

Destination(n, msgs) ==
    [name |-> n, messagesCurrentCount |-> msgs, consumersCurrentCount |-> 0]

\* two servers, each with the members Q and P of two distributed queues
DomainTwoServers ==
    << [name |-> <<"S", "1">>,
        jms_servers |->
            << [name |-> <<"J", "1">>,
                destinations |->
                    << Destination(<<"M", "!", "J", "1", "@", "Q">>, 2),
                       Destination(<<"M", "!", "J", "1", "@", "P">>, 0) >>] >>],
       [name |-> <<"S", "2">>,
        jms_servers |->
            << [name |-> <<"J", "2">>,
                destinations |->
                    << Destination(<<"M", "!", "J", "2", "@", "Q">>, 1),
                       Destination(<<"M", "!", "J", "2", "@", "P">>, 1) >>] >>] >>

\* one server with two JMS servers, Q on the first and P on the second
DomainTwoJmsServers ==
    << [name |-> <<"S", "1">>,
        jms_servers |->
            << [name |-> <<"J", "1">>,
                destinations |->
                    << Destination(<<"M", "!", "J", "1", "@", "Q">>, 2) >>],
               [name |-> <<"J", "2", "@", "S", "1">>,
                destinations |->
                    << Destination(<<"M", "!", "J", "2", "@", "P">>, 0) >>] >>] >>

Domains == {<<>>, DomainTwoServers, DomainTwoJmsServers}

\* what the user types for a queue name, for a filter, for a Y/N question
QueueInputs == {<<"Q">>, <<"P">>, <<"X">>, <<"Q", " ">>, <<"M", "!", "J", "1", "@", "Q">>}

FilterInputs ==
    {<<>>, <<"a">>, PromptExample,
     FilterText(<<"FULL">>, <<"2019", "01", "01", "00", "00", "00", "000">>, "T")}

ChoiceInputs == {<<"Y">>, <<"y">>, <<>>, <<" ">>, <<" ", "y">>, <<"N">>}

\* log(level, text), the text kept as its pieces
Logged(level, text) == Append(printed, LogLine(level, text))

\* raw_input(prompt) returned answer
Asked(prompt, answer) == Append(asked, [prompt |-> prompt, answer |-> answer])

\* a call of a method of a destination
BrokerCall(op, on, filter, to, ok) ==
    [op |-> op, on |-> on, filter |-> filter, to |-> to, ok |-> ok]

\* the filter block with the typed text passed on as typed
ReadFilterUnparsed(args, n, typed, zone) ==
    IF Len(args) > n THEN Returned(SubSeq(args, n + 1, Len(args))) ELSE Returned(typed)

\* lines 332-337 and 632-637: sys.argv[n:] or parse_filter(raw_input(...))
ReadFilter(args, n, typed, zone) ==
    IF Len(args) > n THEN Returned(SubSeq(args, n + 1, Len(args)))
    ELSE ParseFilter(typed, zone)

\* the destination the loops of the operation are at
ServerAt == domain[loc.si]
JmsServerAt == ServerAt.jms_servers[loc.ji]
DestAt == JmsServerAt.destinations[loc.di]

\* the locals of delete_messages_from_queue before its first line
DmLocals ==
    [fn |-> "delete_messages_from_queue", bound |-> {}, exc |-> "",
     queue_name |-> <<>>, msg_filter |-> <<>>, cursor |-> "",
     dest_info |-> NoDict, is_dest_found |-> FALSE, is_dest_found_srv |-> FALSE,
     msg_cur_cnt |-> 0, msg_to_del_cnt |-> 0, si |-> 0, ji |-> 0, di |-> 0]

\* lines 313-346: the queue name and the filter
dm_arguments ==
    /\ pc = "start"
    /\ domain \in Domains
    /\ IsStandalone => argv[2] = "delete_messages_from_queue"
    /\ IF IsStandalone
       THEN IF Len(argv) > 3
            THEN /\ loc' = [DmLocals EXCEPT !.queue_name = Strip(argv[4]),
                                            !.bound = {"queue_name"}]
                 /\ pc' = "dm_servers"
                 /\ UNCHANGED <<printed, asked>>
            ELSE /\ loc' = DmLocals
                 /\ printed' = Logged("ERROR", <<"Incomplete/incorrect list of parameters.">>)
                 /\ pc' = "exited"
                 /\ UNCHANGED asked
       ELSE \E qn \in QueueInputs, typed \in FilterInputs :
                LET read == ReadFilter(argv, 4, typed, tz) IN
                /\ asked' = asked \o <<[prompt |-> "queue name", answer |-> qn],
                                       [prompt |-> "message filter", answer |-> typed]>>
                /\ IF read.raised
                   THEN /\ loc' = [DmLocals EXCEPT !.queue_name = qn,
                                                   !.bound = {"queue_name"},
                                                   !.exc = "ParseException"]
                        /\ pc' = "raised"
                        /\ UNCHANGED printed
                   ELSE /\ loc' = [DmLocals EXCEPT
                                       !.queue_name = Strip(qn),
                                       !.msg_filter = read.value,
                                       !.bound = {"queue_name", "msg_filter", "cursor"}]
                        /\ printed' =
                               IF read.value # <<>>
                               THEN Logged("INFO", <<"The following message filter will be applied:  ",
                                                     read.value>>)
                               ELSE Logged("INFO", <<"No filters will be applied">>)
                        /\ pc' = "dm_servers"
    /\ UNCHANGED <<parserVars, urlVars, report_title, report, col_names, is_sorted,
                   is_total, argv, domain, calls>>

\* lines 349-356: the servers, the parts of the queue name
dm_servers ==
    /\ pc = "dm_servers"
    /\ IF domain = <<>>
       THEN /\ printed' = Logged("ERROR", <<"No servers were found at ">>)
            /\ pc' = "returned"
            /\ UNCHANGED loc
       ELSE /\ loc' = [loc EXCEPT !.is_dest_found = FALSE,
                                  !.dest_info = ParseDestinationName(loc.queue_name),
                                  !.bound = @ \cup {"dest_info", "is_dest_found"},
                                  !.si = 1]
            /\ pc' = "dm_server"
            /\ UNCHANGED printed
    /\ UNCHANGED <<parserVars, urlVars, report_title, report, col_names, is_sorted,
                   is_total, argv, domain, calls, asked>>

\* lines 358-364: for server in servers
dm_server ==
    /\ pc = "dm_server"
    /\ IF loc.si > Len(domain)
       THEN pc' = "dm_finish" /\ UNCHANGED <<loc, printed>>
       ELSE IF "server" \in DOMAIN loc.dest_info /\ loc.dest_info.server # ServerAt.name
       THEN /\ loc' = [loc EXCEPT !.si = @ + 1]
            /\ UNCHANGED <<pc, printed>>
       ELSE /\ loc' = [loc EXCEPT !.is_dest_found_srv = FALSE, !.ji = 1]
            /\ printed' = Logged("INFO", <<"Searching queues on server ", ServerAt.name>>)
            /\ pc' = "dm_jms_server"
    /\ UNCHANGED <<parserVars, urlVars, report_title, report, col_names, is_sorted,
                   is_total, argv, domain, calls, asked>>

\* lines 366-370: for jms_server in jms_servers
dm_jms_server ==
    /\ pc = "dm_jms_server"
    /\ IF loc.ji > Len(ServerAt.jms_servers)
       THEN loc' = [loc EXCEPT !.si = @ + 1] /\ pc' = "dm_server"
       ELSE IF /\ "jms_server" \in DOMAIN loc.dest_info
               /\ loc.dest_info.jms_server # Split(JmsServerAt.name, "@")[1]
       THEN loc' = [loc EXCEPT !.ji = @ + 1] /\ UNCHANGED pc
       ELSE loc' = [loc EXCEPT !.di = 1] /\ pc' = "dm_destination"
    /\ UNCHANGED <<parserVars, urlVars, reportVars, argv, domain, calls, asked>>

\* lines 372-377 and 418-419: for dest in destinations
dm_destination ==
    /\ pc = "dm_destination"
    /\ IF loc.di > Len(JmsServerAt.destinations)
       THEN IF loc.is_dest_found_srv
            THEN loc' = [loc EXCEPT !.si = @ + 1] /\ pc' = "dm_server"
            ELSE loc' = [loc EXCEPT !.ji = @ + 1] /\ pc' = "dm_jms_server"
       ELSE IF loc.queue_name = (IF "jms_module" \in DOMAIN loc.dest_info
                                 THEN DestAt.name ELSE GetQueueName(DestAt.name))
       THEN UNCHANGED loc /\ pc' = "dm_found"
       ELSE loc' = [loc EXCEPT !.di = @ + 1] /\ UNCHANGED pc
    /\ UNCHANGED <<parserVars, urlVars, reportVars, argv, domain, calls, asked>>

\* lines 378-390: the queue was found; the number of messages to delete
dm_found ==
    /\ pc = "dm_found"
    /\ IF "msg_filter" \notin loc.bound
       THEN \* line 383 reads a local that was never assigned
            /\ loc' = [loc EXCEPT !.is_dest_found_srv = TRUE, !.is_dest_found = TRUE,
                                  !.msg_cur_cnt = DestAt.messagesCurrentCount,
                                  !.exc = "UnboundLocalError"]
            /\ pc' = "dm_except"
            /\ UNCHANGED <<calls, printed>>
       ELSE IF loc.msg_filter # <<>>
       THEN \/ /\ calls' = Append(calls, BrokerCall("getMessages", DestAt.name,
                                                    loc.msg_filter, <<>>, FALSE))
               /\ loc' = [loc EXCEPT !.is_dest_found_srv = TRUE, !.is_dest_found = TRUE,
                                     !.msg_cur_cnt = DestAt.messagesCurrentCount,
                                     !.exc = "WLSTException"]
               /\ pc' = "dm_except"
               /\ UNCHANGED printed
            \/ /\ calls' = calls \o
                     <<BrokerCall("getMessages", DestAt.name, loc.msg_filter, <<>>, TRUE),
                       BrokerCall("getCursorSize", DestAt.name, <<>>, <<>>, FALSE)>>
               /\ loc' = [loc EXCEPT !.is_dest_found_srv = TRUE, !.is_dest_found = TRUE,
                                     !.msg_cur_cnt = DestAt.messagesCurrentCount,
                                     !.cursor = "cursor",
                                     !.exc = "WLSTException"]
               /\ pc' = "dm_except"
               /\ UNCHANGED printed
            \/ \E cursor_size \in 0..DestAt.messagesCurrentCount :
                   /\ calls' = calls \o
                         <<BrokerCall("getMessages", DestAt.name, loc.msg_filter, <<>>, TRUE),
                           BrokerCall("getCursorSize", DestAt.name, <<>>, <<>>, TRUE)>>
                   /\ loc' = [loc EXCEPT !.is_dest_found_srv = TRUE, !.is_dest_found = TRUE,
                                         !.msg_cur_cnt = DestAt.messagesCurrentCount,
                                         !.cursor = "cursor",
                                         !.msg_to_del_cnt = cursor_size]
                   /\ printed' = Logged("INFO", <<"Name, Messages to delete: ",
                                                  DestAt.name, cursor_size>>)
                   /\ pc' = "dm_confirm"
       ELSE /\ loc' = [loc EXCEPT !.is_dest_found_srv = TRUE, !.is_dest_found = TRUE,
                                  !.msg_cur_cnt = DestAt.messagesCurrentCount,
                                  !.msg_to_del_cnt = DestAt.messagesCurrentCount]
            /\ printed' = Logged("INFO", <<"Name, Messages to delete: ",
                                           DestAt.name, DestAt.messagesCurrentCount>>)
            /\ pc' = "dm_confirm"
            /\ UNCHANGED calls
    /\ UNCHANGED <<parserVars, urlVars, report_title, report, col_names, is_sorted,
                   is_total, argv, domain, asked>>

\* lines 391-400 and 410-413: the question, unless the queue is empty
dm_confirm ==
    /\ pc = "dm_confirm"
    /\ IF loc.msg_to_del_cnt > 0
       THEN IF ~IsStandalone
            THEN \E del_msgs_choice \in ChoiceInputs :
                     /\ asked' = Asked("delete messages", del_msgs_choice)
                     /\ IF Upper(del_msgs_choice) = <<"Y">> \/ Strip(del_msgs_choice) = <<>>
                        THEN /\ printed' = Logged("INFO", <<"Deleting messages...",
                                                           loc.msg_to_del_cnt>>)
                             /\ pc' = "dm_delete"
                        ELSE /\ printed' = Logged("INFO", <<"Skipping as per user prompt...">>)
                             /\ pc' = "dm_close"
            ELSE /\ printed' = Logged("INFO", <<"Deleting messages...", loc.msg_to_del_cnt>>)
                 /\ pc' = "dm_delete"
                 /\ UNCHANGED asked
       ELSE /\ printed' = Logged("INFO", <<"The queue is empty. Skipping...">>)
            /\ pc' = "dm_close"
            /\ UNCHANGED asked
    /\ UNCHANGED <<parserVars, urlVars, report_title, report, col_names, is_sorted,
                   is_total, argv, domain, loc, calls>>

\* lines 401-409: deleteMessages and what it deleted
dm_delete ==
    /\ pc = "dm_delete"
    /\ \/ /\ calls' = Append(calls, BrokerCall("deleteMessages", DestAt.name,
                                               loc.msg_filter, <<>>, FALSE))
          /\ loc' = [loc EXCEPT !.exc = "WLSTException"]
          /\ pc' = "dm_except"
          /\ UNCHANGED printed
       \/ \E msg_deleted_cnt \in {loc.msg_to_del_cnt, loc.msg_to_del_cnt - 1} :
              /\ calls' = Append(calls, BrokerCall("deleteMessages", DestAt.name,
                                                   loc.msg_filter, <<>>, TRUE))
              /\ printed' =
                     IF msg_deleted_cnt = loc.msg_to_del_cnt
                     THEN Logged("INFO", <<"Successfully deleted ", msg_deleted_cnt,
                                           loc.msg_to_del_cnt, DestAt.name>>)
                     ELSE Logged("WARNING", <<"Deleted ", msg_deleted_cnt,
                                              loc.msg_to_del_cnt, DestAt.name>>)
              /\ pc' = "dm_close"
              /\ UNCHANGED loc
    /\ UNCHANGED <<parserVars, urlVars, report_title, report, col_names, is_sorted,
                   is_total, argv, domain, asked>>

\* lines 414-416: the cursor is closed, the loop goes on
dm_close ==
    /\ pc = "dm_close"
    /\ IF loc.cursor # ""
       THEN \/ /\ calls' = Append(calls, BrokerCall("closeCursor", DestAt.name,
                                                    <<>>, <<>>, FALSE))
               /\ loc' = [loc EXCEPT !.exc = "WLSTException"]
               /\ pc' = "dm_except"
            \/ /\ calls' = Append(calls, BrokerCall("closeCursor", DestAt.name,
                                                    <<>>, <<>>, TRUE))
               /\ loc' = [loc EXCEPT !.cursor = "", !.di = @ + 1]
               /\ pc' = "dm_destination"
       ELSE /\ loc' = [loc EXCEPT !.di = @ + 1]
            /\ pc' = "dm_destination"
            /\ UNCHANGED calls
    /\ UNCHANGED <<parserVars, urlVars, reportVars, argv, domain, asked>>

\* lines 421-423: after the loops
dm_finish ==
    /\ pc = "dm_finish"
    /\ printed' =
           IF ~loc.is_dest_found
           THEN printed \o <<LogLine("ERROR", <<"The queue was not found.">>),
                             LogLine("INFO", <<"delete_messages_from_queue completed.">>)>>
           ELSE Logged("INFO", <<"delete_messages_from_queue completed.">>)
    /\ pc' = "returned"
    /\ UNCHANGED <<parserVars, urlVars, report_title, report, col_names, is_sorted,
                   is_total, opVars>>

\* lines 425-429: except (WLSTException, ValueError, NameError, Exception)
dm_except ==
    /\ pc = "dm_except"
    /\ printed' = Logged("ERROR", <<loc.exc>>)
    /\ IF "cursor" \notin loc.bound
       THEN \* line 427 reads a local that was never assigned
            /\ loc' = [loc EXCEPT !.exc = "UnboundLocalError"]
            /\ pc' = "raised"
            /\ UNCHANGED calls
       ELSE IF loc.cursor # ""
       THEN \/ /\ calls' = Append(calls, BrokerCall("closeCursor", DestAt.name,
                                                    <<>>, <<>>, FALSE))
               /\ loc' = [loc EXCEPT !.exc = "WLSTException"]
               /\ pc' = "raised"
            \/ /\ calls' = Append(calls, BrokerCall("closeCursor", DestAt.name,
                                                    <<>>, <<>>, TRUE))
               /\ loc' = [loc EXCEPT !.cursor = ""]
               /\ pc' = "returned"
       ELSE /\ pc' = "returned"
            /\ UNCHANGED <<loc, calls>>
    /\ UNCHANGED <<parserVars, urlVars, report_title, report, col_names, is_sorted,
                   is_total, argv, domain, asked>>

\* sys.argv of the calls of delete_messages_from_queue
DmArgv ==
    {<<"manageJmsQueues.py">>,
     <<"manageJmsQueues.py", "delete_messages_from_queue", "test">>,
     <<"manageJmsQueues.py", "delete_messages_from_queue", "test", <<"Q">>>>,
     <<"manageJmsQueues.py", "delete_messages_from_queue", "test", <<"X">>>>,
     <<"manageJmsQueues.py", "delete_messages_from_queue", "test", <<"Q">>, <<"a">>>>}

\* the locals of move_messages before its first line
MmLocals ==
    [fn |-> "move_messages", bound |-> {}, exc |-> "",
     q_src_name |-> <<>>, q_trg_name |-> <<>>, msg_filter |-> <<>>, cursor |-> "",
     report |-> <<>>, q_beans_list |-> <<>>, q_msg_total |-> 0, q_msg_move_total |-> 0,
     targeted_jms_srv_name |-> <<>>, jms_server_name |-> <<>>,
     q_src_found |-> FALSE, q_trg_found |-> FALSE,
     q_src_found_srv |-> FALSE, q_trg_found_srv |-> FALSE,
     q_src_bean |-> <<>>, q_trg_bean |-> <<>>,
     q_src_bean_msg_cur_cnt |-> 0, msg_to_move_cnt |-> 0,
     si |-> 0, ji |-> 0, di |-> 0, row |-> 0]

\* lines 599-643: the two queue names and the filter
mm_arguments ==
    /\ pc = "start"
    /\ domain \in Domains
    /\ IsStandalone => argv[2] = "move_messages"
    /\ IF IsStandalone /\ Len(argv) <= 4
       THEN /\ loc' = MmLocals
            /\ printed' = Logged("ERROR", <<"Incomplete/incorrect list of parameters.">>)
            /\ pc' = "exited"
            /\ UNCHANGED asked
       ELSE \E src \in QueueInputs, trg \in QueueInputs, typed \in FilterInputs :
                LET q_src_name == IF IsStandalone THEN argv[4] ELSE Strip(src)
                    q_trg_name == IF IsStandalone THEN argv[5] ELSE Strip(trg)
                    names == IF IsStandalone THEN <<>>
                             ELSE <<[prompt |-> "source queue", answer |-> src],
                                    [prompt |-> "target queue", answer |-> trg]>>
                    read  == ReadFilter(argv, 5, typed, tz)
                    named == [MmLocals EXCEPT !.q_src_name = q_src_name,
                                              !.q_trg_name = q_trg_name,
                                              !.bound = {"q_src_name", "q_trg_name"}]
                    first == Logged("INFO", <<"Source queue, Target queue: ",
                                              q_src_name, q_trg_name>>)
                IN  IF Len(argv) > 5
                    THEN \* line 640 adds a list to a str
                         /\ asked' = asked \o names
                         /\ loc' = [named EXCEPT !.msg_filter = read.value,
                                                 !.bound = @ \cup {"msg_filter", "cursor"},
                                                 !.exc = "TypeError"]
                         /\ printed' = first
                         /\ pc' = "raised"
                    ELSE /\ asked' = asked \o names
                                     \o <<[prompt |-> "message filter", answer |-> typed]>>
                         /\ IF read.raised
                            THEN /\ loc' = [named EXCEPT !.exc = "ParseException"]
                                 /\ printed' = first
                                 /\ pc' = "raised"
                            ELSE /\ loc' = [named EXCEPT
                                                !.msg_filter = read.value,
                                                !.bound = @ \cup {"msg_filter", "cursor"}]
                                 /\ printed' =
                                        Append(first,
                                               IF read.value # <<>>
                                               THEN LogLine("INFO",
                                                        <<"The following message filter will be applied:  ",
                                                          read.value>>)
                                               ELSE LogLine("INFO", <<"No filters will be applied">>))
                                 /\ pc' = "mm_servers"
    /\ UNCHANGED <<parserVars, urlVars, report_title, report, col_names, is_sorted,
                   is_total, argv, domain, calls>>

\* lines 646-661: the servers, the counters
mm_servers ==
    /\ pc = "mm_servers"
    /\ IF domain = <<>>
       THEN /\ printed' = Logged("ERROR", <<"No servers were found at ">>)
            /\ pc' = "returned"
            /\ UNCHANGED loc
       ELSE /\ loc' = [loc EXCEPT !.bound = @ \cup {"report", "q_beans_list"}, !.si = 1]
            /\ pc' = "mm_server"
            /\ UNCHANGED printed
    /\ UNCHANGED <<parserVars, urlVars, report_title, report, col_names, is_sorted,
                   is_total, argv, domain, calls, asked>>

\* lines 662-667: for server in servers
mm_server ==
    /\ pc = "mm_server"
    /\ IF loc.si > Len(domain)
       THEN pc' = "mm_report" /\ UNCHANGED <<loc, printed>>
       ELSE /\ loc' = [loc EXCEPT !.q_src_found_srv = FALSE, !.q_trg_found_srv = FALSE,
                                  !.ji = 1]
            /\ printed' = Logged("INFO", <<"Processing server: ", ServerAt.name>>)
            /\ pc' = "mm_jms_server"
    /\ UNCHANGED <<parserVars, urlVars, report_title, report, col_names, is_sorted,
                   is_total, argv, domain, calls, asked>>

\* lines 668-677: for jms_server in jms_servers
mm_jms_server ==
    /\ pc = "mm_jms_server"
    /\ IF loc.ji > Len(ServerAt.jms_servers)
       THEN loc' = [loc EXCEPT !.si = @ + 1] /\ pc' = "mm_server"
       ELSE LET jms_server_name == IF Contains(JmsServerAt.name, "@")
                                   THEN Split(JmsServerAt.name, "@")[1]
                                   ELSE JmsServerAt.name
            IN  IF /\ loc.targeted_jms_srv_name # <<>>
                   /\ jms_server_name # loc.targeted_jms_srv_name
                THEN /\ loc' = [loc EXCEPT !.jms_server_name = jms_server_name, !.ji = @ + 1]
                     /\ UNCHANGED pc
                ELSE /\ loc' = [loc EXCEPT !.jms_server_name = jms_server_name, !.di = 1]
                     /\ pc' = "mm_destination"
    /\ UNCHANGED <<parserVars, urlVars, reportVars, argv, domain, calls, asked>>

\* lines 681-686: the destination at hand is the source queue
SourceFound(l) ==
    [l EXCEPT !.q_src_found = TRUE, !.q_src_found_srv = TRUE,
              !.q_src_bean = DestAt.name,
              !.q_src_bean_msg_cur_cnt = DestAt.messagesCurrentCount]

\* lines 687-696: the number of messages to move is known
SourceCounted(l, msg_to_move_cnt) ==
    [l EXCEPT !.msg_to_move_cnt = msg_to_move_cnt,
              !.q_msg_total = @ + l.q_src_bean_msg_cur_cnt,
              !.q_msg_move_total = @ + msg_to_move_cnt]

\* lines 697-701: the destination at hand may be the target queue
TargetSeen(l) ==
    IF GetQueueName(DestAt.name) = l.q_trg_name
    THEN [l EXCEPT !.q_trg_found = TRUE, !.q_trg_found_srv = TRUE,
                   !.q_trg_bean = DestAt.name]
    ELSE l

\* lines 702-703: break when both queues were found on this server
NextDestination(l) ==
    IF l.q_src_found_srv /\ l.q_trg_found_srv THEN l ELSE [l EXCEPT !.di = @ + 1]

\* lines 678-703: for dest in destinations
mm_destination ==
    /\ pc = "mm_destination"
    /\ IF loc.di > Len(JmsServerAt.destinations)
       THEN pc' = "mm_pair" /\ UNCHANGED <<loc, calls>>
       ELSE IF GetQueueName(DestAt.name) # loc.q_src_name
       THEN /\ loc' = NextDestination(TargetSeen(loc))
            /\ pc' = IF loc'.q_src_found_srv /\ loc'.q_trg_found_srv
                     THEN "mm_pair" ELSE "mm_destination"
            /\ UNCHANGED calls
       ELSE IF loc.msg_filter = <<>>
       THEN /\ loc' = NextDestination(TargetSeen(
                          SourceCounted(SourceFound(loc), DestAt.messagesCurrentCount)))
            /\ pc' = IF loc'.q_src_found_srv /\ loc'.q_trg_found_srv
                     THEN "mm_pair" ELSE "mm_destination"
            /\ UNCHANGED calls
       ELSE \/ /\ calls' = Append(calls, BrokerCall("getMessages", DestAt.name,
                                                    loc.msg_filter, <<>>, FALSE))
               /\ loc' = [SourceFound(loc) EXCEPT !.exc = "WLSTException"]
               /\ pc' = "mm_except"
            \/ /\ calls' = calls \o
                     <<BrokerCall("getMessages", DestAt.name, loc.msg_filter, <<>>, TRUE),
                       BrokerCall("getCursorSize", DestAt.name, <<>>, <<>>, FALSE)>>
               /\ loc' = [SourceFound(loc) EXCEPT !.cursor = "cursor",
                                                  !.exc = "WLSTException"]
               /\ pc' = "mm_except"
            \/ \E cursor_size \in 0..DestAt.messagesCurrentCount :
                   \/ /\ calls' = calls \o
                            <<BrokerCall("getMessages", DestAt.name, loc.msg_filter, <<>>, TRUE),
                              BrokerCall("getCursorSize", DestAt.name, <<>>, <<>>, TRUE),
                              BrokerCall("closeCursor", DestAt.name, <<>>, <<>>, FALSE)>>
                      /\ loc' = [SourceFound(loc) EXCEPT !.cursor = "cursor",
                                                         !.msg_to_move_cnt = cursor_size,
                                                         !.exc = "WLSTException"]
                      /\ pc' = "mm_except"
                   \/ /\ calls' = calls \o
                            <<BrokerCall("getMessages", DestAt.name, loc.msg_filter, <<>>, TRUE),
                              BrokerCall("getCursorSize", DestAt.name, <<>>, <<>>, TRUE),
                              BrokerCall("closeCursor", DestAt.name, <<>>, <<>>, TRUE)>>
                      /\ loc' = NextDestination(TargetSeen(
                                    SourceCounted(SourceFound(loc), cursor_size)))
                      /\ pc' = IF loc'.q_src_found_srv /\ loc'.q_trg_found_srv
                               THEN "mm_pair" ELSE "mm_destination"
    /\ UNCHANGED <<parserVars, urlVars, reportVars, argv, domain, asked>>

\* lines 704-710: after the destinations of a JMS server
mm_pair ==
    /\ pc = "mm_pair"
    /\ IF loc.q_src_found_srv /\ loc.q_trg_found_srv
       THEN /\ loc' = [loc EXCEPT
                           !.q_beans_list =
                               Append(@, [src |-> loc.q_src_bean, trg |-> loc.q_trg_bean,
                                          msg_cur_cnt |-> loc.q_src_bean_msg_cur_cnt,
                                          msg_to_move_cnt |-> loc.msg_to_move_cnt]),
                           !.report =
                               Append(@, <<StrCell(ServerAt.name),
                                           StrCell(loc.jms_server_name),
                                           StrCell(loc.q_src_name),
                                           StrCell(loc.q_trg_name),
                                           IntCell(loc.q_src_bean_msg_cur_cnt),
                                           IntCell(loc.msg_to_move_cnt)>>),
                           !.targeted_jms_srv_name = loc.jms_server_name,
                           !.si = @ + 1]
            /\ pc' = "mm_server"
       ELSE /\ loc' = [loc EXCEPT !.ji = @ + 1]
            /\ pc' = "mm_jms_server"
    /\ UNCHANGED <<parserVars, urlVars, reportVars, argv, domain, calls, asked>>

MoveTitle == <<"REPORT: QUEUES FOUND FOR MOVE MESSAGES, ">>
MoveErrorTitle == <<"REPORT: MOVE_MESSAGES , ">>

MoveColumns ==
    << <<"S", "E", "R", "V", "E", "R">>,
       <<"J", "M", "S", " ", "S", "E", "R", "V", "E", "R">>,
       <<"S", "O", "U", "R", "C", "E", " ", "Q", "U", "E", "U", "E">>,
       <<"T", "A", "R", "G", "E", "T", " ", "Q", "U", "E", "U", "E">>,
       <<"M", "S", "G", "_", "C", "O", "U", "N", "T">>,
       <<"M", "S", "G", "_", "T", "O", "_", "M", "O", "V", "E", "_", "C", "O", "U", "N", "T">> >>

\* lines 712-727: the report of the pairs, or what was not found
mm_report ==
    /\ pc = "mm_report"
    /\ LET found ==
               IF loc.q_src_found /\ loc.q_trg_found
               THEN CreateReport(MoveTitle, loc.report, MoveColumns, TRUE, TRUE)
               ELSE IF loc.q_src_found
               THEN <<LogLine("ERROR", <<"Target queue was not found">>)>>
               ELSE IF loc.q_trg_found
               THEN <<LogLine("ERROR", <<"Source queue was not found">>)>>
               ELSE <<LogLine("ERROR", <<"Neither source nor target queue were not found">>)>>
           none ==
               IF loc.q_msg_move_total = 0
               THEN <<LogLine("INFO", <<"There are no messages to move.">>)>>
               ELSE <<>>
       IN  printed' = printed \o found \o none
    /\ pc' = "mm_confirm"
    /\ UNCHANGED <<parserVars, urlVars, report_title, report, col_names, is_sorted,
                   is_total, opVars>>

\* the messages moved without the question
mm_confirmUnasked ==
    /\ pc = "mm_confirm"
    /\ IF loc.q_msg_move_total > 0
       THEN /\ loc' = [loc EXCEPT !.row = 1]
            /\ pc' = "mm_move"
            /\ UNCHANGED printed
       ELSE /\ printed' =
                   printed \o <<LogLine("WARNING", <<"Operation canceled by the user.">>),
                                LogLine("INFO", <<"move_messages completed.">>)>>
            /\ pc' = "returned"
            /\ UNCHANGED loc
    /\ UNCHANGED <<parserVars, urlVars, report_title, report, col_names, is_sorted,
                   is_total, argv, domain, calls, asked>>

\* lines 729-733 and 751-754: the question, unless there is nothing to move
mm_confirm ==
    /\ pc = "mm_confirm"
    /\ IF loc.q_msg_move_total > 0 /\ ~IsStandalone
       THEN \E mv_msgs_choice \in ChoiceInputs :
                /\ asked' = Asked("move messages", mv_msgs_choice)
                /\ IF \/ Upper(Strip(mv_msgs_choice)) = <<"Y">>
                      \/ Strip(mv_msgs_choice) = <<>>
                   THEN /\ loc' = [loc EXCEPT !.row = 1]
                        /\ pc' = "mm_move"
                        /\ UNCHANGED printed
                   ELSE /\ printed' =
                               printed \o <<LogLine("WARNING", <<"Operation canceled by the user.">>),
                                            LogLine("INFO", <<"move_messages completed.">>)>>
                        /\ pc' = "returned"
                        /\ UNCHANGED loc
       ELSE IF loc.q_msg_move_total > 0
       THEN /\ loc' = [loc EXCEPT !.row = 1]
            /\ pc' = "mm_move"
            /\ UNCHANGED <<printed, asked>>
       ELSE /\ printed' =
                   printed \o <<LogLine("WARNING", <<"Operation canceled by the user.">>),
                                LogLine("INFO", <<"move_messages completed.">>)>>
            /\ pc' = "returned"
            /\ UNCHANGED <<loc, asked>>
    /\ UNCHANGED <<parserVars, urlVars, report_title, report, col_names, is_sorted,
                   is_total, argv, domain, calls>>

\* lines 734-754: for row in q_beans_list
mm_move ==
    /\ pc = "mm_move"
    /\ IF loc.row > Len(loc.q_beans_list)
       THEN /\ printed' = Logged("INFO", <<"move_messages completed.">>)
            /\ pc' = "returned"
            /\ UNCHANGED <<loc, calls>>
       ELSE LET pair == loc.q_beans_list[loc.row] IN
            IF pair.msg_to_move_cnt > 0
            THEN \/ /\ calls' = Append(calls, BrokerCall("moveMessages", pair.src,
                                                         loc.msg_filter, pair.trg, FALSE))
                    /\ printed' = Logged("INFO", <<"Moving messages from ",
                                                   pair.msg_to_move_cnt, pair.src>>)
                    /\ loc' = [loc EXCEPT !.msg_to_move_cnt = pair.msg_to_move_cnt,
                                          !.q_src_bean = pair.src, !.q_trg_bean = pair.trg,
                                          !.exc = "WLSTException"]
                    /\ pc' = "mm_except"
                 \/ \E q_msg_moved_cnt \in {pair.msg_to_move_cnt, pair.msg_to_move_cnt - 1} :
                        /\ calls' = Append(calls, BrokerCall("moveMessages", pair.src,
                                                             loc.msg_filter, pair.trg, TRUE))
                        /\ printed' =
                               printed \o
                               <<LogLine("INFO", <<"Moving messages from ",
                                                   pair.msg_to_move_cnt, pair.src>>),
                                 IF q_msg_moved_cnt = pair.msg_to_move_cnt
                                 THEN LogLine("INFO", <<"Successfully moved ", q_msg_moved_cnt,
                                                        pair.msg_to_move_cnt, pair.trg>>)
                                 ELSE LogLine("WARNING", <<"There are still current messages on ",
                                                           pair.trg>>)>>
                        /\ loc' = [loc EXCEPT !.msg_to_move_cnt = pair.msg_to_move_cnt,
                                              !.q_src_bean = pair.src, !.q_trg_bean = pair.trg,
                                              !.row = @ + 1]
                        /\ UNCHANGED pc
            ELSE /\ loc' = [loc EXCEPT !.msg_to_move_cnt = pair.msg_to_move_cnt,
                                       !.row = @ + 1]
                 /\ UNCHANGED <<pc, printed, calls>>
    /\ UNCHANGED <<parserVars, urlVars, report_title, report, col_names, is_sorted,
                   is_total, argv, domain, asked>>

\* lines 756-769: except (ServiceUnavailableException, WLSTException, ...)
mm_except ==
    /\ pc = "mm_except"
    /\ IF loc.cursor # ""
       THEN \/ /\ calls' = Append(calls, BrokerCall("closeCursor", DestAt.name,
                                                    <<>>, <<>>, FALSE))
               /\ printed' = Logged("ERROR", <<loc.exc>>)
               /\ loc' = [loc EXCEPT !.exc = "WLSTException"]
               /\ pc' = "raised"
            \/ /\ calls' = Append(calls, BrokerCall("closeCursor", DestAt.name,
                                                    <<>>, <<>>, TRUE))
               /\ printed' =
                      Logged("ERROR", <<loc.exc>>)
                      \o (IF loc.report # <<>>
                          THEN CreateReport(MoveErrorTitle, loc.report, MoveColumns, TRUE, TRUE)
                          ELSE <<>>)
               /\ loc' = [loc EXCEPT !.cursor = ""]
               /\ pc' = "returned"
       ELSE /\ printed' =
                   Logged("ERROR", <<loc.exc>>)
                   \o (IF loc.report # <<>>
                       THEN CreateReport(MoveErrorTitle, loc.report, MoveColumns, TRUE, TRUE)
                       ELSE <<>>)
            /\ pc' = "returned"
            /\ UNCHANGED <<loc, calls>>
    /\ UNCHANGED <<parserVars, urlVars, report_title, report, col_names, is_sorted,
                   is_total, argv, domain, asked>>

\* sys.argv of the calls of move_messages
MmArgv ==
    {<<"manageJmsQueues.py", "move_messages", "test", <<"Q">>>>,
     <<"manageJmsQueues.py", "move_messages", "test", <<"Q">>, <<"P">>>>,
     <<"manageJmsQueues.py", "move_messages", "test", <<"Q">>, <<"X">>>>,
     <<"manageJmsQueues.py", "move_messages", "test", <<"Q">>, <<"P">>, <<"a">>>>}

(***************************************************************************)
(* The specification of the operations on messages                         *)
(***************************************************************************)
InitMessages ==
    /\ pc = "start"
    /\ tz = 0
    /\ msg_filter = <<>>
    /\ filter_out = NoResult
    /\ name = <<>>
    /\ queue_name = <<>>
    /\ dest_info = NoDict
    /\ IdleUrl
    /\ IdleReport
    /\ argv \in DmArgv \cup MmArgv
    /\ domain \in Domains
    /\ loc = NoDict
    /\ calls = <<>>
    /\ asked = <<>>

NextMessages ==
    \/ dm_arguments \/ dm_servers \/ dm_server \/ dm_jms_server \/ dm_destination
    \/ dm_found \/ dm_confirm \/ dm_delete \/ dm_close \/ dm_finish \/ dm_except
    \/ mm_arguments \/ mm_servers \/ mm_server \/ mm_jms_server \/ mm_destination
    \/ mm_pair \/ mm_report \/ mm_confirm \/ mm_move \/ mm_except

SpecMessages == InitMessages /\ [][NextMessages]_vars

(***************************************************************************)
(* Properties of the operations on messages                                *)
(***************************************************************************)
\* the operation is over
Ended == pc \in {"returned", "raised", "exited"}

\* no call to a destination raised
AllCallsReturned == \A i \in 1..Len(calls) : calls[i].ok

\* the destinations of the domain
AllDestinations ==
    {domain[s].jms_servers[j].destinations[d] :
        <<s, j, d>> \in {t \in (1..Len(domain)) \X (1..2) \X (1..2) :
                            /\ t[2] <= Len(domain[t[1]].jms_servers)
                            /\ t[3] <= Len(domain[t[1]].jms_servers[t[2]].destinations)}}

\* the names of the destinations that are the queue q and hold messages
HoldingMessages(q) ==
    {d.name : d \in {e \in AllDestinations :
                        GetQueueName(e.name) = q /\ e.messagesCurrentCount > 0}}

\* the log tells how many messages were deleted from destination d
DeletedReported(d) ==
    \E j \in 1..Len(printed) :
        /\ printed[j].kind = "log"
        /\ printed[j].text[1] \in {"Successfully deleted ", "Deleted "}
        /\ printed[j].text[4] = d

\* C19: standalone, delete_messages_from_queue called with an environment
\* and the name of a queue that exists and holds messages ends having called
\* deleteMessages on that queue, with the given filter or with none, and
\* having reported the number of deleted messages
C19_StandaloneDeleteDeletes ==
    /\ Ended
    /\ Len(argv) > 3
    /\ argv[2] = "delete_messages_from_queue"
    /\ AllCallsReturned
    => \A d \in HoldingMessages(argv[4]) :
           /\ \E i \in 1..Len(calls) :
                  /\ calls[i].op = "deleteMessages"
                  /\ calls[i].on = d
                  /\ (Len(argv) = 4) = (Len(calls[i].filter) = 0)
           /\ DeletedReported(d)

\* the calls that hand a filter to the broker
FilterCalls == {"getMessages", "deleteMessages", "moveMessages"}

\* C20: a filter that is not empty and is passed to getMessages,
\* deleteMessages or moveMessages is what parse_filter returned for the text
\* the user gave as the filter
C20_FiltersAreParsed ==
    \A i \in 1..Len(calls) :
        calls[i].op \in FilterCalls /\ Len(calls[i].filter) > 0 =>
            \E a \in 1..Len(asked) :
                /\ asked[a].prompt = "message filter"
                /\ ~ParseFilter(asked[a].answer, tz).raised
                /\ calls[i].filter = ParseFilter(asked[a].answer, tz).value

\* the example of the prompt was typed and reached moveMessages rewritten
C20_Witness ==
    /\ pc = "returned"
    /\ ~IsStandalone
    /\ \E a \in 1..Len(asked) :
           asked[a].prompt = "message filter" /\ asked[a].answer = PromptExample
    /\ \E i \in 1..Len(calls) :
           /\ calls[i].op = "moveMessages"
           /\ calls[i].ok
           /\ Len(calls[i].filter) > 0
           /\ calls[i].filter # PromptExample

(***************************************************************************)
(* delete_queues, lines 432-587                                            *)
(***************************************************************************)
\* how often an empty answer to a question that insists is typed
MaxRetries == 1

\* a JMS module of the edit tree: cmo.JMSSystemResources and what the
\* lookups of lines 478, 502 and 523-526 find in it
JmsModule(n, udqs, queues, foreign) ==
    [name |-> n, udqs |-> udqs, queues |-> queues, foreign |-> foreign]

\* Q is a uniform distributed queue of M1 and a queue of M2, P a queue of M1,
\* R a foreign destination of both foreign servers of M1
EditTreeTwoModules ==
    << JmsModule(<<"M", "1">>, {<<"Q">>}, {<<"P">>},
                 << [name |-> <<"F", "1">>, dests |-> {<<"R">>}],
                    [name |-> <<"F", "2">>, dests |-> {<<"R">>}] >>),
       JmsModule(<<"M", "2">>, {}, {<<"Q">>}, <<>>) >>

EditTrees == {<<>>, EditTreeTwoModules}

\* what the user types for the list of queues
QueueListInputs == {<<>>, <<"Q">>, <<"Q", " ", "P">>, <<"X">>, <<"R">>}

\* the locals of delete_queues before its first line
DqLocals ==
    [fn |-> "delete_queues", exc |-> "", queue_names |-> <<>>, queue_name |-> <<>>,
     report |-> <<>>, changes_cnt |-> 0, cnt |-> 0, kind |-> <<>>,
     qi |-> 0, mi |-> 0, fi |-> 0]

\* lines 440-461: the list of the queues to delete
dq_arguments ==
    /\ pc \in {"start", "dq_arguments"}
    /\ pc = "dq_arguments" => loc.fn = "delete_queues"
    /\ IsStandalone => argv[2] = "delete_queues"
    /\ domain \in EditTrees
    /\ IF IsStandalone
       THEN IF Len(argv) > 3
            THEN /\ loc' = [DqLocals EXCEPT !.queue_names = SubSeq(argv, 4, Len(argv))]
                 /\ printed' = Logged("INFO", <<"Queues to delete: ",
                                               SubSeq(argv, 4, Len(argv))>>)
                 /\ pc' = "dq_edit"
                 /\ UNCHANGED asked
            ELSE /\ loc' = DqLocals
                 /\ printed' = Logged("ERROR", <<"Incomplete list of attributes.">>)
                 /\ pc' = "exited"
                 /\ UNCHANGED asked
       ELSE \E queue_names \in QueueListInputs :
                /\ queue_names = <<>> => Len(asked) < MaxRetries
                /\ asked' = Asked("queues to delete", queue_names)
                /\ IF queue_names = <<>>
                   THEN /\ loc' = DqLocals
                        /\ pc' = "dq_arguments"
                        /\ UNCHANGED printed
                   ELSE /\ loc' = [DqLocals EXCEPT !.queue_names = Split(queue_names, " ")]
                        /\ printed' = Logged("INFO", <<"Queues to delete: ",
                                                      Split(queue_names, " ")>>)
                        /\ pc' = "dq_edit"
    /\ UNCHANGED <<parserVars, urlVars, report_title, report, col_names, is_sorted,
                   is_total, argv, domain, calls>>

\* a call of a WLST command of the edit session, or of a method of a module
EditCall(op, on, ok) == BrokerCall(op, on, <<>>, <<>>, ok)

\* lines 463-468: edit() and startEdit()
dq_edit ==
    /\ pc = "dq_edit"
    /\ \/ /\ calls' = calls \o <<EditCall("edit", <<>>, TRUE),
                                 EditCall("startEdit", <<>>, TRUE)>>
          /\ loc' = [loc EXCEPT !.changes_cnt = 0, !.qi = 1]
          /\ pc' = "dq_queue"
       \/ /\ calls' = calls \o <<EditCall("edit", <<>>, TRUE),
                                 EditCall("startEdit", <<>>, FALSE)>>
          /\ loc' = [loc EXCEPT !.exc = "WLSTException"]
          /\ pc' = "dq_except"
    /\ UNCHANGED <<parserVars, urlVars, reportVars, argv, domain, asked>>

\* lines 469-472 and 558-560: the next name of the list, or the end of the list
dq_queue ==
    /\ pc = "dq_queue"
    /\ IF loc.qi > Len(loc.queue_names)
       THEN /\ pc' = "dq_save"
            /\ UNCHANGED <<loc, printed>>
       ELSE /\ loc' = [loc EXCEPT !.queue_name = Strip(loc.queue_names[loc.qi]),
                                  !.cnt = 0, !.mi = 1]
            /\ printed' = Logged("INFO", <<"Searching for queue '",
                                          Strip(loc.queue_names[loc.qi]), "'...">>)
            /\ pc' = "dq_module"
    /\ UNCHANGED <<parserVars, urlVars, report_title, report, col_names, is_sorted,
                   is_total, argv, domain, calls, asked>>

\* the JMS module and the foreign server the loops of delete_queues are at
ModuleAt == domain[loc.mi]
ForeignServerAt == ModuleAt.foreign[loc.fi]

\* lines 473-483, 500-506 and 521-523: the lookups in a JMS module
dq_module ==
    /\ pc = "dq_module"
    /\ IF loc.mi > Len(domain)
       THEN /\ pc' = "dq_counted"
            /\ UNCHANGED <<loc, calls, printed>>
       ELSE \/ /\ calls' = Append(calls, EditCall("lookupUniformDistributedQueue",
                                                  loc.queue_name, FALSE))
               /\ loc' = [loc EXCEPT !.exc = "WLSTException"]
               /\ pc' = "dq_except"
               /\ UNCHANGED printed
            \/ IF loc.queue_name \in ModuleAt.udqs
               THEN /\ calls' = Append(calls, EditCall("lookupUniformDistributedQueue",
                                                       loc.queue_name, TRUE))
                    /\ loc' = [loc EXCEPT !.cnt = @ + 1,
                                          !.kind = <<"U", "n", "i", "f", "o", "r", "m", "D", "i", "s", "t", "r", "i", "b", "u", "t", "e", "d", "Q", "u", "e", "u", "e">>]
                    /\ printed' = Logged("INFO", <<"UniformDistributedQueue '",
                                                  loc.queue_name,
                                                  "' was found in JMS module '",
                                                  ModuleAt.name, "'">>)
                    /\ pc' = "dq_confirm"
               ELSE IF loc.queue_name \in ModuleAt.queues
               THEN /\ calls' = calls \o <<EditCall("lookupUniformDistributedQueue",
                                                    loc.queue_name, TRUE),
                                           EditCall("lookupQueue", loc.queue_name, TRUE)>>
                    /\ loc' = [loc EXCEPT !.cnt = @ + 1, !.kind = <<"Q", "u", "e", "u", "e">>]
                    /\ printed' = Logged("INFO", <<"Queue '", loc.queue_name,
                                                  "' was found in JMS module '",
                                                  ModuleAt.name, "'">>)
                    /\ pc' = "dq_confirm"
               ELSE /\ calls' = calls \o <<EditCall("lookupUniformDistributedQueue",
                                                    loc.queue_name, TRUE),
                                           EditCall("lookupQueue", loc.queue_name, TRUE),
                                           EditCall("getForeignServers", <<>>, TRUE)>>
                    /\ loc' = [loc EXCEPT !.fi = 1]
                    /\ pc' = "dq_foreign"
                    /\ UNCHANGED printed
    /\ UNCHANGED <<parserVars, urlVars, report_title, report, col_names, is_sorted,
                   is_total, argv, domain, asked>>

\* lines 524-532 and 550: the foreign servers of the module
dq_foreign ==
    /\ pc = "dq_foreign"
    /\ IF loc.fi > Len(ModuleAt.foreign)
       THEN /\ loc' = [loc EXCEPT !.mi = @ + 1]
            /\ pc' = "dq_module"
            /\ UNCHANGED <<calls, printed>>
       ELSE /\ calls' = Append(calls, EditCall("lookupForeignDestination",
                                               loc.queue_name, TRUE))
            /\ IF loc.queue_name \in ForeignServerAt.dests
               THEN /\ loc' = [loc EXCEPT !.cnt = @ + 1, !.kind = <<"F", "o", "r", "e", "i", "g", "n", "D", "e", "s", "t", "i", "n", "a", "t", "i", "o", "n">>]
                    /\ printed' = Logged("INFO", <<"ForeignDestination '", loc.queue_name,
                                                  "' was found in JMS module '",
                                                  ModuleAt.name, "'">>)
                    /\ pc' = "dq_confirm"
               ELSE /\ loc' = [loc EXCEPT !.fi = @ + 1]
                    /\ pc' = "dq_foreign"
                    /\ UNCHANGED printed
    /\ UNCHANGED <<parserVars, urlVars, report_title, report, col_names, is_sorted,
                   is_total, argv, domain, asked>>

\* the destroy method of lines 492, 515 and 541 for the kind of queue found
DestroyOf(kind) ==
    IF kind = <<"U", "n", "i", "f", "o", "r", "m", "D", "i", "s", "t", "r", "i", "b", "u", "t", "e", "d", "Q", "u", "e", "u", "e">> THEN "destroyUniformDistributedQueue"
    ELSE IF kind = <<"Q", "u", "e", "u", "e">> THEN "destroyQueue"
    ELSE "destroyForeignDestination"

\* a row of the report of delete_queues
DeleteRow(kind, queue, status) == <<StrCell(kind), StrCell(queue), StrCell(status)>>

\* the loops go on after a queue was found: the next JMS module, or the next
\* foreign server of the module
AfterFound(l) ==
    IF l.kind = <<"F", "o", "r", "e", "i", "g", "n", "D", "e", "s", "t", "i", "n", "a", "t", "i", "o", "n">> THEN [l EXCEPT !.fi = @ + 1]
    ELSE [l EXCEPT !.mi = @ + 1]

\* lines 485-499, 508-520 and 534-549: the question, the destroy call, the row
dq_confirm ==
    /\ pc = "dq_confirm"
    /\ \E del_queue_choice \in IF IsStandalone THEN {<<"Y">>} ELSE ChoiceInputs :
           /\ asked' = IF IsStandalone THEN asked
                       ELSE Asked("delete queue", del_queue_choice)
           /\ IF Upper(del_queue_choice) = <<"Y">> \/ Strip(del_queue_choice) = <<>>
              THEN \/ /\ calls' = Append(calls, EditCall(DestroyOf(loc.kind),
                                                         loc.queue_name, FALSE))
                      /\ loc' = [loc EXCEPT !.exc = "WLSTException"]
                      /\ pc' = "dq_except"
                      /\ UNCHANGED printed
                   \/ /\ calls' = Append(calls, EditCall(DestroyOf(loc.kind),
                                                         loc.queue_name, TRUE))
                      /\ printed' = Logged("INFO", <<"'", loc.kind, loc.queue_name,
                                                    "' deleted.">>)
                      /\ loc' = [AfterFound(loc) EXCEPT
                                     !.report = Append(@, DeleteRow(loc.kind, loc.queue_name,
                                                                    <<"D", "e", "l", "e", "t", "e", "d">>))]
                      /\ pc' = IF loc.kind = <<"F", "o", "r", "e", "i", "g", "n", "D", "e", "s", "t", "i", "n", "a", "t", "i", "o", "n">>
                               THEN "dq_foreign" ELSE "dq_module"
              ELSE /\ loc' = [AfterFound(loc) EXCEPT
                                  !.report = Append(@, DeleteRow(loc.kind, loc.queue_name,
                                                                 <<"S", "k", "i", "p", "p", "e", "d", " ", "b", "y", " ", "u", "s", "e", "r">>))]
                   /\ pc' = IF loc.kind = <<"F", "o", "r", "e", "i", "g", "n", "D", "e", "s", "t", "i", "n", "a", "t", "i", "o", "n">>
                            THEN "dq_foreign" ELSE "dq_module"
                   /\ UNCHANGED <<calls, printed>>
    /\ UNCHANGED <<parserVars, urlVars, report_title, report, col_names, is_sorted,
                   is_total, argv, domain>>

\* lines 553-557: a name that was found nowhere, the count of the changes
dq_counted ==
    /\ pc = "dq_counted"
    /\ IF loc.cnt = 0
       THEN /\ printed' = Logged("INFO", <<"'", loc.queue_name,
                                          "' was not found in any JMS module.">>)
            /\ loc' = [loc EXCEPT
                           !.report = Append(@, DeleteRow(<<"Q", "u", "e", "u", "e">>, loc.queue_name,
                                                          <<"N", "o", "t", " ", "f", "o", "u", "n", "d">>)),
                           !.changes_cnt = @ + loc.cnt, !.qi = @ + 1]
       ELSE /\ loc' = [loc EXCEPT !.changes_cnt = @ + loc.cnt, !.qi = @ + 1]
            /\ UNCHANGED printed
    /\ pc' = "dq_queue"
    /\ UNCHANGED <<parserVars, urlVars, report_title, report, col_names, is_sorted,
                   is_total, argv, domain, calls, asked>>

\* lines 560-567: save() and activate(), or cancelEdit()
dq_save ==
    /\ pc = "dq_save"
    /\ IF loc.changes_cnt > 0
       THEN \/ /\ calls' = Append(calls, EditCall("save", <<>>, FALSE))
               /\ printed' = Logged("INFO", <<"Saving changes...">>)
               /\ loc' = [loc EXCEPT !.exc = "WLSTException"]
               /\ pc' = "dq_except"
            \/ /\ calls' = calls \o <<EditCall("save", <<>>, TRUE),
                                      EditCall("activate", <<>>, FALSE)>>
               /\ printed' = printed \o <<LogLine("INFO", <<"Saving changes...">>),
                                          LogLine("INFO", <<"Activating session...">>)>>
               /\ loc' = [loc EXCEPT !.exc = "WLSTException"]
               /\ pc' = "dq_except"
            \/ /\ calls' = calls \o <<EditCall("save", <<>>, TRUE),
                                      EditCall("activate", <<>>, TRUE)>>
               /\ printed' = printed \o <<LogLine("INFO", <<"Saving changes...">>),
                                          LogLine("INFO", <<"Activating session...">>)>>
               /\ pc' = "dq_report"
               /\ UNCHANGED loc
       ELSE /\ printed' = Logged("INFO", <<"No changes were made. Canceling edit session...">>)
            /\ \/ /\ calls' = Append(calls, EditCall("cancelEdit", <<>>, FALSE))
                  /\ loc' = [loc EXCEPT !.exc = "WLSTException"]
                  /\ pc' = "dq_except"
               \/ /\ calls' = Append(calls, EditCall("cancelEdit", <<>>, TRUE))
                  /\ pc' = "dq_report"
                  /\ UNCHANGED loc
    /\ UNCHANGED <<parserVars, urlVars, report_title, report, col_names, is_sorted,
                   is_total, argv, domain, asked>>

DeleteTitle == <<"REPORT: DELETE QUEUES, ">>
DeleteColumns == <<<<"O", "B", "J", "E", "C", "T", "_", "T", "Y", "P", "E">>, <<"O", "B", "J", "E", "C", "T", "_", "N", "A", "M", "E">>, <<"S", "T", "A", "T", "U", "S">>>>
DeleteErrorColumns == <<<<"O", "B", "J", "E", "C", "T", " ", "T", "Y", "P", "E">>, <<"O", "B", "J", "E", "C", "T", " ", "N", "A", "M", "E">>, <<"S", "T", "A", "T", "U", "S">>>>

\* lines 569-574: the report of what was done with each name
dq_report ==
    /\ pc = "dq_report"
    /\ printed' = printed
                  \o CreateReport(DeleteTitle, loc.report, DeleteColumns, TRUE, FALSE)
                  \o <<LogLine("INFO", <<"delete_queues completed.">>)>>
    /\ pc' = "returned"
    /\ UNCHANGED <<parserVars, urlVars, report_title, report, col_names, is_sorted,
                   is_total, opVars>>

\* the handler with undo() alone, the session left open
dq_exceptUndoOnly ==
    /\ pc = "dq_except"
    /\ calls' = Append(calls, EditCall("undo", <<>>, TRUE))
    /\ printed' = Logged("ERROR", <<loc.exc>>)
    /\ pc' = "returned"
    /\ UNCHANGED <<parserVars, urlVars, report_title, report, col_names, is_sorted,
                   is_total, argv, domain, loc, asked>>

\* lines 576-587: undo() and cancelEdit(), the report of what was done so far
dq_except ==
    /\ pc = "dq_except"
    /\ \/ /\ calls' = Append(calls, EditCall("undo", <<>>, FALSE))
          /\ printed' = printed \o <<LogLine("ERROR", <<loc.exc>>),
                                     LogLine("INFO", <<"Undoing changes and canceling edit session...">>)>>
          /\ pc' = "raised"
       \/ /\ calls' = calls \o <<EditCall("undo", <<>>, TRUE),
                                 EditCall("cancelEdit", <<>>, FALSE)>>
          /\ printed' = printed \o <<LogLine("ERROR", <<loc.exc>>),
                                     LogLine("INFO", <<"Undoing changes and canceling edit session...">>)>>
          /\ pc' = "raised"
       \/ /\ calls' = calls \o <<EditCall("undo", <<>>, TRUE),
                                 EditCall("cancelEdit", <<>>, TRUE)>>
          /\ printed' = printed
                        \o <<LogLine("ERROR", <<loc.exc>>),
                             LogLine("INFO", <<"Undoing changes and canceling edit session...">>)>>
                        \o (IF loc.report # <<>>
                            THEN CreateReport(DeleteTitle, loc.report, DeleteErrorColumns,
                                              TRUE, FALSE)
                            ELSE <<>>)
          /\ pc' = "returned"
    /\ UNCHANGED <<parserVars, urlVars, report_title, report, col_names, is_sorted,
                   is_total, argv, domain, loc, asked>>

\* sys.argv of the calls of delete_queues
DqArgv ==
    {<<"manageJmsQueues.py">>,
     <<"manageJmsQueues.py", "delete_queues", "test">>,
     <<"manageJmsQueues.py", "delete_queues", "test", <<"Q">>>>,
     <<"manageJmsQueues.py", "delete_queues", "test", <<"X">>, <<"R">>>>}

(***************************************************************************)
(* The specification of delete_queues                                      *)
(***************************************************************************)
InitQueues ==
    /\ pc = "start"
    /\ tz = 0
    /\ msg_filter = <<>>
    /\ filter_out = NoResult
    /\ name = <<>>
    /\ queue_name = <<>>
    /\ dest_info = NoDict
    /\ IdleUrl
    /\ IdleReport
    /\ argv \in DqArgv
    /\ domain \in EditTrees
    /\ loc = NoDict
    /\ calls = <<>>
    /\ asked = <<>>

NextQueues ==
    \/ dq_arguments \/ dq_edit \/ dq_queue \/ dq_module \/ dq_foreign
    \/ dq_confirm \/ dq_counted \/ dq_save \/ dq_report \/ dq_except

SpecQueues == InitQueues /\ [][NextQueues]_vars

(***************************************************************************)
(* Properties of delete_queues                                             *)
(***************************************************************************)
DestroyOps ==
    {"destroyUniformDistributedQueue", "destroyQueue", "destroyForeignDestination"}

\* positions of the calls of one of the operations ops, made or returned
CallsOf(ops) == {k \in 1..Len(calls) : calls[k].op \in ops}
ReturnedOf(ops) == {k \in CallsOf(ops) : calls[k].ok}

\* C21: save() and activate() are invoked only after a destroy call of the
\* edit session; a session in which nothing was destroyed and no call raised,
\* the user having answered no to every queue found included, ends with
\* cancelEdit and without save() and activate()
C21_SaveOnlyAfterDestroy ==
    /\ \A k \in CallsOf({"save", "activate"}) :
           \E j \in CallsOf(DestroyOps) : j < k
    /\ (pc = "dq_report" /\ CallsOf(DestroyOps) = {})
           => /\ calls[Len(calls)].op = "cancelEdit"
              /\ CallsOf({"save", "activate"}) = {}

\* C22: when delete_queues returns, every session that startEdit opened was
\* ended after it by activate() or by cancelEdit(): by activate() only after
\* save() returned, by undo() and then cancelEdit() right after a call that
\* raised, by cancelEdit() alone when nothing was found; and at no time is
\* cancelEdit() called after the activate() or the cancelEdit() that ended
\* the session
C22_EditSessionEnded ==
    LET opened == ReturnedOf({"startEdit"})
        ended  == ReturnedOf({"activate", "cancelEdit"})
        failed == {k \in 1..Len(calls) : ~calls[k].ok}
    IN  /\ pc = "returned" =>
               /\ \A k \in opened : \E j \in ended : j > k
               /\ \A k \in failed :
                      /\ Len(calls) = k + 2
                      /\ calls[k + 1] = EditCall("undo", <<>>, TRUE)
                      /\ calls[k + 2] = EditCall("cancelEdit", <<>>, TRUE)
               /\ \A j \in ReturnedOf({"activate"}) :
                      j > 1 /\ calls[j - 1] = EditCall("save", <<>>, TRUE)
               /\ (failed = {} /\ loc.changes_cnt = 0)
                      => calls[Len(calls)] = EditCall("cancelEdit", <<>>, TRUE)
        /\ \A j \in ended : \A k \in CallsOf({"cancelEdit"}) : k <= j

\* a call inside an open session raised and delete_queues returned
C22_Witness ==
    /\ pc = "returned"
    /\ ReturnedOf({"startEdit"}) # {}
    /\ \E k \in CallsOf(DestroyOps \cup {"save", "activate", "cancelEdit"}) : ~calls[k].ok

(***************************************************************************)
(* Properties of the pairs of move_messages                                *)
(***************************************************************************)
\* the JMS servers, as <<server, JMS server>> positions, that host the
\* destination called full_name
HostsOf(full_name) ==
    {sj \in (1..Len(domain)) \X (1..2) :
         /\ sj[2] <= Len(domain[sj[1]].jms_servers)
         /\ \E d \in 1..Len(domain[sj[1]].jms_servers[sj[2]].destinations) :
                domain[sj[1]].jms_servers[sj[2]].destinations[d].name = full_name}

\* the name of a JMS server without its server part
ShortJmsName(n) == IF Contains(n, "@") THEN Split(n, "@")[1] ELSE n

\* C23: the source and the target of every pair of q_beans_list are
\* destinations of one JMS server, the row of the report written with the
\* pair names the server and that JMS server, and every moveMessages call
\* goes from a destination to a destination of the same JMS server
C23_PairsOnOneJmsServer ==
    /\ ("fn" \in DOMAIN loc /\ loc.fn = "move_messages") =>
           \A r \in 1..Len(loc.q_beans_list) :
               \E sj \in HostsOf(loc.q_beans_list[r].src) \cap HostsOf(loc.q_beans_list[r].trg) :
                   /\ loc.report[r][1].s = domain[sj[1]].name
                   /\ loc.report[r][2].s = ShortJmsName(domain[sj[1]].jms_servers[sj[2]].name)
    /\ \A k \in CallsOf({"moveMessages"}) :
           HostsOf(calls[k].on) \cap HostsOf(calls[k].to) # {}

(***************************************************************************)
(* get_queue_info, lines 772-880                                           *)
(***************************************************************************)
\* the locals of get_queue_info before its first line
GqLocals ==
    [fn |-> "get_queue_info", exc |-> "", queue_name |-> <<>>, report |-> <<>>,
     cursor |-> "", si |-> 0, ji |-> 0, di |-> 0]

\* lines 780-800: the name of the queue
gq_arguments ==
    /\ pc \in {"start", "gq_arguments"}
    /\ pc = "gq_arguments" => loc.fn = "get_queue_info"
    /\ IsStandalone => argv[2] = "get_queue_info"
    /\ domain \in Domains
    /\ IF IsStandalone
       THEN IF Len(argv) > 3
            THEN /\ loc' = [GqLocals EXCEPT !.queue_name = Strip(argv[4])]
                 /\ printed' = Logged("INFO", <<"Entered queue name: ", Strip(argv[4])>>)
                 /\ pc' = "gq_servers"
                 /\ UNCHANGED asked
            ELSE /\ loc' = GqLocals
                 /\ printed' = Logged("ERROR", <<"Incomplete list of attributes.">>)
                 /\ pc' = "exited"
                 /\ UNCHANGED asked
       ELSE \E typed \in QueueInputs \cup {<<>>} :
                /\ typed = <<>> => Len(asked) < MaxRetries
                /\ asked' = Asked("queue name", typed)
                /\ IF typed = <<>>
                   THEN /\ loc' = GqLocals
                        /\ pc' = "gq_arguments"
                        /\ UNCHANGED printed
                   ELSE /\ loc' = [GqLocals EXCEPT !.queue_name = Strip(typed)]
                        /\ printed' = Logged("INFO", <<"Entered queue name: ", Strip(typed)>>)
                        /\ pc' = "gq_servers"
    /\ UNCHANGED <<parserVars, urlVars, report_title, report, col_names, is_sorted,
                   is_total, argv, domain, calls>>

\* lines 802-809: the servers of the domain
gq_servers ==
    /\ pc = "gq_servers"
    /\ IF domain = <<>>
       THEN /\ printed' = Logged("WARNING", <<"No servers were found at ">>)
            /\ pc' = "returned"
            /\ UNCHANGED loc
       ELSE /\ loc' = [loc EXCEPT !.si = 1]
            /\ pc' = "gq_server"
            /\ UNCHANGED printed
    /\ UNCHANGED <<parserVars, urlVars, report_title, report, col_names, is_sorted,
                   is_total, argv, domain, calls, asked>>

\* lines 810-818 and 877: for server in servers
gq_server ==
    /\ pc = "gq_server"
    /\ IF loc.si > Len(domain)
       THEN /\ printed' = Logged("INFO", <<"get_queue_info completed.">>)
            /\ pc' = "returned"
            /\ UNCHANGED loc
       ELSE /\ loc' = [loc EXCEPT !.report = <<>>, !.ji = 1]
            /\ printed' = Logged("INFO", <<"Searching for ", loc.queue_name,
                                          " on server ", ServerAt.name, "...">>)
            /\ pc' = "gq_jms_server"
    /\ UNCHANGED <<parserVars, urlVars, report_title, report, col_names, is_sorted,
                   is_total, argv, domain, calls, asked>>

InfoTitle == <<"REPORT: INFORMATION ON QUEUE ">>
InfoColumns == <<<<"P", "R", "O", "P", "E", "R", "T", "Y">>, <<"V", "A", "L", "U", "E">>>>

\* lines 819-820 and 873-876: for jms_server in jms_servers, then the report
gq_jms_server ==
    /\ pc = "gq_jms_server"
    /\ IF loc.ji > Len(ServerAt.jms_servers)
       THEN /\ printed' =
                   IF loc.report # <<>>
                   THEN printed \o CreateReport(InfoTitle, loc.report, InfoColumns, FALSE, FALSE)
                   ELSE Logged("WARNING", <<"Queue was not found.">>)
            /\ loc' = [loc EXCEPT !.si = @ + 1]
            /\ pc' = "gq_server"
       ELSE /\ loc' = [loc EXCEPT !.di = 1]
            /\ pc' = "gq_destination"
            /\ UNCHANGED printed
    /\ UNCHANGED <<parserVars, urlVars, report_title, report, col_names, is_sorted,
                   is_total, argv, domain, calls, asked>>

\* an attribute of a destination; the counters the domains do not give are 0
Attribute(dest, attr) == IF attr \in DOMAIN dest THEN dest[attr] ELSE 0

\* lines 824-835: the rows about the queue
InfoRows(dest) ==
    << <<StrCell(<<"Q", "u", "e", "u", "e", " ", "n", "a", "m", "e">>), StrCell(GetQueueName(dest.name))>>,
       <<StrCell(<<"Q", "u", "e", "u", "e", " ", "f", "u", "l", "l", " ", "n", "a", "m", "e">>), StrCell(dest.name)>>,
       <<StrCell(<<"M", "e", "s", "s", "a", "g", "e", "s", " ", "C", "u", "r", "r", "e", "n", "t", " ", "C", "o", "u", "n", "t">>), IntCell(dest.messagesCurrentCount)>>,
       <<StrCell(<<"M", "e", "s", "s", "a", "g", "e", "s", " ", "R", "e", "c", "e", "i", "v", "e", "d", " ", "C", "o", "u", "n", "t">>),
         IntCell(Attribute(dest, "messagesReceivedCount"))>>,
       <<StrCell(<<"M", "e", "s", "s", "a", "g", "e", "s", " ", "P", "e", "n", "d", "i", "n", "g", " ", "C", "o", "u", "n", "t">>),
         IntCell(Attribute(dest, "messagesPendingCount"))>>,
       <<StrCell(<<"M", "e", "s", "s", "a", "g", "e", "s", " ", "H", "i", "g", "h", " ", "C", "o", "u", "n", "t">>), IntCell(Attribute(dest, "messagesHighCount"))>>,
       <<StrCell(<<"C", "o", "n", "s", "u", "m", "e", "r", "s", " ", "C", "u", "r", "r", "e", "n", "t", " ", "C", "o", "u", "n", "t">>), IntCell(dest.consumersCurrentCount)>> >>

\* lines 821-837: for dest in destinations
gq_destination ==
    /\ pc = "gq_destination"
    /\ IF loc.di > Len(JmsServerAt.destinations)
       THEN loc' = [loc EXCEPT !.ji = @ + 1] /\ pc' = "gq_jms_server"
       ELSE IF loc.queue_name = GetQueueName(DestAt.name)
       THEN /\ loc' = [loc EXCEPT !.report = @ \o InfoRows(DestAt),
                                  !.di = IF DestAt.messagesCurrentCount # 0 THEN @ ELSE @ + 1]
            /\ pc' = IF DestAt.messagesCurrentCount # 0 THEN "gq_messages"
                     ELSE "gq_destination"
       ELSE loc' = [loc EXCEPT !.di = @ + 1] /\ UNCHANGED pc
    /\ UNCHANGED <<parserVars, urlVars, reportVars, argv, domain, calls, asked>>

\* lines 842-871: the rows about the first and the last message of the
\* cursor; what the broker says of a message is its position in the cursor
MessageRows(cursor_size) ==
    LET msg_indexes == IF cursor_size > 1 THEN <<0, cursor_size - 1>> ELSE <<0>>
        rows(i) ==
            << <<StrCell(<<>>), StrCell(<<>>)>>,
               <<StrCell(IF i = 0 THEN <<"F", "i", "r", "s", "t", " ", "m", "e", "s", "s", "a", "g", "e", ".", ".", ".", ".", ".", ".", ".", ".", ".", ".">>
                         ELSE <<"L", "a", "s", "t", " ", "m", "e", "s", "s", "a", "g", "e", ".", ".", ".", ".", ".", ".", ".", ".", ".", ".", ".">>), StrCell(<<>>)>>,
               <<StrCell(<<"J", "M", "S", "M", "e", "s", "s", "a", "g", "e", "I", "D">>), IntCell(i)>>,
               <<StrCell(<<"J", "M", "S", "T", "i", "m", "e", "s", "t", "a", "m", "p">>), IntCell(i)>>,
               <<StrCell(<<"P", "a", "y", "l", "o", "a", "d", "S", "i", "z", "e">>), IntCell(i)>>,
               <<StrCell(<<"J", "M", "S", "E", "x", "p", "i", "r", "a", "t", "i", "o", "n">>), IntCell(i)>>,
               <<StrCell(<<"J", "M", "S", "R", "e", "d", "e", "l", "i", "v", "e", "r", "e", "d">>), IntCell(i)>>,
               <<StrCell(<<"J", "M", "S", "R", "e", "d", "e", "l", "i", "v", "e", "r", "y", "L", "i", "m", "i", "t">>), IntCell(i)>> >>
    IN  Flatten([k \in 1..Len(msg_indexes) |-> rows(msg_indexes[k])])

\* lines 837-872: the cursor over all the messages of the queue
gq_messages ==
    /\ pc = "gq_messages"
    /\ LET opened == BrokerCall("getMessages", DestAt.name, <<>>, <<>>, TRUE)
           sized  == BrokerCall("getCursorSize", DestAt.name, <<>>, <<>>, TRUE)
           read   == BrokerCall("getNext", DestAt.name, <<>>, <<>>, TRUE)
           closed == BrokerCall("closeCursor", DestAt.name, <<>>, <<>>, TRUE)
           Raise(op) == BrokerCall(op, DestAt.name, <<>>, <<>>, FALSE)
       IN  \/ /\ calls' = calls \o <<Raise("getMessages")>>
              /\ loc' = [loc EXCEPT !.exc = "WLSTException"]
              /\ pc' = "gq_except"
           \/ /\ calls' = calls \o <<opened, Raise("getCursorSize")>>
              /\ loc' = [loc EXCEPT !.cursor = "cursor", !.exc = "WLSTException"]
              /\ pc' = "gq_except"
           \/ /\ calls' = calls \o <<opened, sized, Raise("getNext")>>
              /\ loc' = [loc EXCEPT !.cursor = "cursor", !.exc = "WLSTException"]
              /\ pc' = "gq_except"
           \/ /\ calls' = calls \o <<opened, sized, read, Raise("closeCursor")>>
              /\ loc' = [loc EXCEPT !.cursor = "cursor", !.exc = "WLSTException",
                                    !.report = @ \o MessageRows(DestAt.messagesCurrentCount)]
              /\ pc' = "gq_except"
           \/ /\ calls' = calls \o <<opened, sized, read, closed>>
              /\ loc' = [loc EXCEPT !.cursor = "cursor", !.di = @ + 1,
                                    !.report = @ \o MessageRows(DestAt.messagesCurrentCount)]
              /\ pc' = "gq_destination"
    /\ UNCHANGED <<parserVars, urlVars, reportVars, argv, domain, asked>>

\* lines 879-880: except (WLSTException, ValueError, ...): log("ERROR", str(e))
gq_except ==
    /\ pc = "gq_except"
    /\ printed' = Logged("ERROR", <<loc.exc>>)
    /\ pc' = "returned"
    /\ UNCHANGED <<parserVars, urlVars, report_title, report, col_names, is_sorted,
                   is_total, opVars>>

\* sys.argv of the calls of get_queue_info
GqArgv ==
    {<<"manageJmsQueues.py">>,
     <<"manageJmsQueues.py", "get_queue_info", "test">>,
     <<"manageJmsQueues.py", "get_queue_info", "test", <<"Q">>>>}

(***************************************************************************)
(* The specification of the operations that change or read the queues      *)
(***************************************************************************)
InitOperations ==
    /\ pc = "start"
    /\ tz = 0
    /\ msg_filter = <<>>
    /\ filter_out = NoResult
    /\ name = <<>>
    /\ queue_name = <<>>
    /\ dest_info = NoDict
    /\ IdleUrl
    /\ IdleReport
    /\ \/ argv \in DmArgv \cup MmArgv \cup GqArgv /\ domain \in Domains
       \/ argv \in DqArgv /\ domain \in EditTrees
    /\ loc = NoDict
    /\ calls = <<>>
    /\ asked = <<>>

NextInfo ==
    \/ gq_arguments \/ gq_servers \/ gq_server \/ gq_jms_server \/ gq_destination
    \/ gq_messages \/ gq_except

NextOperations == NextMessages \/ NextQueues \/ NextInfo

SpecOperations == InitOperations /\ [][NextOperations]_vars

(***************************************************************************)
(* Properties of the operations that change or read the queues             *)
(***************************************************************************)
\* the answers Y, y and the empty answer
PlainYes == {<<"Y">>, <<"y">>, <<>>}

\* the answers that are Y, y or empty once the blanks around them are removed
StrippedYes == {a \in ChoiceInputs : Strip(a) \in PlainYes}

\* positions of the answers of the set yes to the question prompt
AnsweredYes(prompt, yes) ==
    {k \in 1..Len(asked) : asked[k].prompt = prompt /\ asked[k].answer \in yes}

\* in interactive mode there are no more deleteMessages calls than answers
\* of the set yes to its question, no more destroy calls than answers of the
\* set yes to theirs, no moveMessages call without an answer of the set yes,
\* and moveMessages is called only for pairs with messages to move
ConfirmedBy(yes) ==
    ~IsStandalone =>
        /\ Cardinality(CallsOf({"deleteMessages"}))
               <= Cardinality(AnsweredYes("delete messages", yes))
        /\ Cardinality(CallsOf(DestroyOps))
               <= Cardinality(AnsweredYes("delete queue", yes))
        /\ CallsOf({"moveMessages"}) # {} => AnsweredYes("move messages", yes) # {}
        /\ \A k \in CallsOf({"moveMessages"}) :
               \E r \in 1..Len(loc.q_beans_list) :
                   /\ loc.q_beans_list[r].src = calls[k].on
                   /\ loc.q_beans_list[r].trg = calls[k].to
                   /\ loc.q_beans_list[r].msg_to_move_cnt > 0

\* C24 as stated: in interactive mode deleteMessages, the destroy calls and
\* moveMessages are invoked only after the user answered the question of the
\* call with Y, y or an empty answer, moveMessages only for pairs whose
\* count of messages to move is above 0
C24_ConfirmedByYOrEmpty == ConfirmedBy(PlainYes)

\* C24 amended: in interactive mode deleteMessages, the destroy calls and
\* moveMessages are invoked only after the user answered the question of the
\* call with an answer that is Y, y or empty once the blanks around it are
\* removed, moveMessages only for pairs whose count of messages to move is
\* above 0
C24_ConfirmedAfterStrip == ConfirmedBy(StrippedYes)

\* a blank answer was given and the call was made
C24_Witness ==
    /\ ~IsStandalone
    /\ \/ AnsweredYes("delete messages", {<<" ">>}) # {} /\ CallsOf({"deleteMessages"}) # {}
       \/ AnsweredYes("delete queue", {<<" ">>}) # {} /\ CallsOf(DestroyOps) # {}
       \/ AnsweredYes("move messages", {<<" ", "y">>}) # {} /\ CallsOf({"moveMessages"}) # {}

\* C25: when an operation returns and no closeCursor call raised, every
\* cursor that getMessages opened on a destination was closed by a later
\* closeCursor call on that destination, also when getCursorSize, getNext
\* or deleteMessages raised while it was open
C25_CursorsClosed ==
    (pc = "returned" /\ \A k \in CallsOf({"closeCursor"}) : calls[k].ok) =>
        \A k \in ReturnedOf({"getMessages"}) :
            \E j \in ReturnedOf({"closeCursor"}) : j > k /\ calls[j].on = calls[k].on

(***************************************************************************)
(* main, start_connect and connect_wls, lines 47-147 and 993-1063          *)
(***************************************************************************)
\* how many procedures the user chooses from the menu before choosing exit
MaxChoices == 2

\* how many calls of connect() fail in a run
MaxFailures == 2

\* prop_env_file: the environments that have a property file, and the url
\* property of each
PropEnvFile == {"test", "prod"}
PropUrl(env) == IF env = "test" THEN "t3://test:7001" ELSE "t3://prod:7001"

\* what the user types for an environment and for a procedure
EnvInputs == {"test", "prod", "none"}
ProcedureInputs == {"0", "1", "9", "x"}

\* the procedures that lines 106-134 run after start_connect
Operations ==
    {"1", "list_all_queues", "2", "list_queues_without_listeners",
     "3", "list_all_queues_with_current_messages",
     "4", "list_dmq_queues_with_current_messages",
     "5", "delete_messages_from_queue", "6", "delete_queues",
     "7", "move_messages", "8", "get_queue_info"}

\* a call of connect, of disconnect or of an operation, with what
\* connection_info["is_connected"] is when the call is made
MainCall(op, on, ok) ==
    [op |-> op, on |-> on, ok |-> ok, is_connected |-> loc.connection_info.is_connected]

\* lines 52-54 and 1250-1256: the locals of main before its loops; ret is
\* where connect_wls returns to
MainLocals ==
    [fn |-> "main", keep_main_loop |-> TRUE, is_connected |-> FALSE,
     connection_info |-> [is_connected |-> FALSE,
                          env |-> IF IsStandalone THEN argv[3] ELSE "",
                          url |-> ""],
     procedure |-> "", ret |-> "main_connected"]

\* lines 52-58: the first call of connect_wls
main_start ==
    /\ pc = "start"
    /\ loc' = MainLocals
    /\ pc' = "cw_disconnect"
    /\ UNCHANGED <<parserVars, urlVars, reportVars, argv, domain, calls, asked>>

\* connect_wls without line 1018
cw_disconnectNever ==
    /\ pc = "cw_disconnect"
    /\ pc' = "cw_env"
    /\ UNCHANGED <<parserVars, urlVars, reportVars, opVars>>

\* lines 1017-1018: connect_wls drops the connection that is open
cw_disconnect ==
    /\ pc = "cw_disconnect"
    /\ calls' = IF loc.connection_info.is_connected
                THEN Append(calls, MainCall("disconnect", "", TRUE))
                ELSE calls
    /\ pc' = "cw_env"
    /\ UNCHANGED <<parserVars, urlVars, reportVars, argv, domain, loc, asked>>

\* lines 1020-1044: the environment, asked for when it is not known
cw_env ==
    /\ pc = "cw_env"
    /\ IF loc.connection_info.env = ""
       THEN \E env \in EnvInputs :
                /\ env \notin PropEnvFile =>
                       Cardinality({k \in 1..Len(asked) :
                                        /\ asked[k].prompt = "environment"
                                        /\ asked[k].answer \notin PropEnvFile}) < MaxRetries
                /\ asked' = Asked("environment", env)
                /\ IF env \in PropEnvFile
                   THEN /\ loc' = [loc EXCEPT !.connection_info.env = env]
                        /\ pc' = "cw_connect"
                   ELSE UNCHANGED <<loc, pc>>
                /\ UNCHANGED printed
       ELSE IF loc.connection_info.env \in PropEnvFile
       THEN /\ pc' = "cw_connect"
            /\ UNCHANGED <<loc, asked, printed>>
       ELSE /\ printed' = Logged("ERROR", <<"Property file for the environment ",
                                           loc.connection_info.env, " was not found.  ">>)
            /\ pc' = "exited"
            /\ UNCHANGED <<loc, asked>>
    /\ UNCHANGED <<parserVars, urlVars, report_title, report, col_names, is_sorted,
                   is_total, argv, domain, calls>>

\* lines 1046-1063: the properties are read and connect() is called
cw_connect ==
    /\ pc = "cw_connect"
    /\ LET env == loc.connection_info.env IN
       \/ \* the property file cannot be read: the exception leaves connect_wls
          /\ loc' = [loc EXCEPT !.connection_info.env = env]
          /\ pc' = IF loc.ret = "main_connected" THEN "raised" ELSE "main_except"
          /\ UNCHANGED <<calls, printed>>
       \/ /\ calls' = Append(calls, MainCall("connect", PropUrl(env), TRUE))
          /\ printed' = Logged("INFO", <<"Trying to connect to ", PropUrl(env)>>)
          /\ loc' = [loc EXCEPT !.connection_info =
                                    [is_connected |-> TRUE, env |-> env, url |-> PropUrl(env)]]
          /\ pc' = loc.ret
       \/ /\ Cardinality({k \in 1..Len(calls) : calls[k].op = "connect" /\ ~calls[k].ok})
                 < MaxFailures
          /\ calls' = Append(calls, MainCall("connect", PropUrl(env), FALSE))
          /\ printed' = printed \o <<LogLine("INFO", <<"Trying to connect to ", PropUrl(env)>>),
                                     LogLine("ERROR", <<"WLSTException">>)>>
          /\ loc' = [loc EXCEPT !.connection_info =
                                    [is_connected |-> FALSE, env |-> env, url |-> PropUrl(env)]]
          /\ pc' = loc.ret
    /\ UNCHANGED <<parserVars, urlVars, report_title, report, col_names, is_sorted,
                   is_total, argv, domain, asked>>

\* lines 57-65: until the first connection is made
main_connected ==
    /\ pc = "main_connected"
    /\ IF loc.connection_info.is_connected
       THEN /\ loc' = [loc EXCEPT !.is_connected = TRUE]
            /\ pc' = "main_menu"
            /\ UNCHANGED calls
       ELSE IF IsStandalone
       THEN /\ loc' = [loc EXCEPT !.is_connected = FALSE]
            /\ calls' = Append(calls, MainCall("disconnect", "", TRUE))
            /\ pc' = "exited"
       ELSE /\ loc' = [loc EXCEPT !.is_connected = FALSE, !.connection_info.env = ""]
            /\ pc' = "cw_disconnect"
            /\ UNCHANGED calls
    /\ UNCHANGED <<parserVars, urlVars, reportVars, argv, domain, asked>>

\* lines 67-101: the procedure, from sys.argv or from the menu
main_menu ==
    /\ pc = "main_menu"
    /\ IF ~loc.keep_main_loop
       THEN /\ pc' = "main_exit"
            /\ UNCHANGED <<loc, asked>>
       ELSE IF IsStandalone
       THEN /\ loc' = [loc EXCEPT !.procedure = argv[2], !.keep_main_loop = FALSE]
            /\ pc' = "main_dispatch"
            /\ UNCHANGED asked
       ELSE \E procedure \in ProcedureInputs :
                /\ procedure # "9" =>
                       Cardinality({k \in 1..Len(asked) : asked[k].prompt = "procedure"})
                           < MaxChoices
                /\ asked' = Asked("procedure", procedure)
                /\ loc' = [loc EXCEPT !.procedure = procedure]
                /\ pc' = "main_dispatch"
    /\ UNCHANGED <<parserVars, urlVars, reportVars, argv, domain, calls>>

\* lines 102-138 and 993-1005: the branch of the procedure; start_connect
\* calls connect_wls when the connection is down or the url is not known
main_dispatch ==
    /\ pc = "main_dispatch"
    /\ IF loc.procedure = "0"
       THEN /\ loc' = [loc EXCEPT !.connection_info.env = "", !.ret = "main_menu"]
            /\ pc' = "cw_disconnect"
            /\ UNCHANGED printed
       ELSE IF loc.procedure \in Operations
       THEN /\ printed' = Logged("INFO", <<"Starting ", loc.procedure, " in ",
                                          loc.connection_info.env, "...">>)
            /\ loc' = [loc EXCEPT !.ret = "main_operation"]
            /\ pc' = IF ~loc.connection_info.is_connected \/ loc.connection_info.url = ""
                     THEN "cw_disconnect" ELSE "main_operation"
       ELSE IF loc.procedure = "9"
       THEN /\ pc' = "main_exit"
            /\ UNCHANGED <<loc, printed>>
       ELSE /\ printed' = Logged("ERROR", <<"Unknown procedure number: ", loc.procedure,
                                           ". Try again.">>)
            /\ pc' = "main_menu"
            /\ UNCHANGED loc
    /\ UNCHANGED <<parserVars, urlVars, report_title, report, col_names, is_sorted,
                   is_total, argv, domain, calls, asked>>

\* lines 109-134: the operation is called with what start_connect returned;
\* it returns or it raises
main_operation ==
    /\ pc = "main_operation"
    /\ \/ /\ calls' = Append(calls, MainCall("operation", loc.procedure, TRUE))
          /\ pc' = "main_menu"
       \/ /\ calls' = Append(calls, MainCall("operation", loc.procedure, FALSE))
          /\ pc' = "main_except"
    /\ UNCHANGED <<parserVars, urlVars, reportVars, argv, domain, loc, asked>>

\* lines 139-143: the bare except of the loop
main_except ==
    /\ pc = "main_except"
    /\ printed' = Logged("ERROR", <<"sys.exc_info()">>)
    /\ calls' = Append(calls, MainCall("disconnect", "", TRUE))
    /\ loc' = [loc EXCEPT !.is_connected = FALSE, !.connection_info.is_connected = FALSE]
    /\ pc' = "main_menu"
    /\ UNCHANGED <<parserVars, urlVars, report_title, report, col_names, is_sorted,
                   is_total, argv, domain, asked>>

\* lines 145-147: f.close(), disconnect(), exit()
main_exit ==
    /\ pc = "main_exit"
    /\ calls' = Append(calls, MainCall("disconnect", "", TRUE))
    /\ pc' = "exited"
    /\ UNCHANGED <<parserVars, urlVars, reportVars, argv, domain, loc, asked>>

\* sys.argv of the runs of the script
MainArgv ==
    {<<"manageJmsQueues.py">>,
     <<"manageJmsQueues.py", "list_all_queues", "test">>,
     <<"manageJmsQueues.py", "5", "prod">>,
     <<"manageJmsQueues.py", "0", "test">>,
     <<"manageJmsQueues.py", "1", "none">>,
     <<"manageJmsQueues.py", "x", "test">>}

(***************************************************************************)
(* The specification of main                                               *)
(***************************************************************************)
InitMain ==
    /\ pc = "start"
    /\ tz = 0
    /\ msg_filter = <<>>
    /\ filter_out = NoResult
    /\ name = <<>>
    /\ queue_name = <<>>
    /\ dest_info = NoDict
    /\ IdleUrl
    /\ IdleReport
    /\ argv \in MainArgv
    /\ domain = <<>>
    /\ loc = NoDict
    /\ calls = <<>>
    /\ asked = <<>>

NextMain ==
    \/ main_start \/ cw_disconnect \/ cw_env \/ cw_connect \/ main_connected
    \/ main_menu \/ main_dispatch \/ main_operation \/ main_except \/ main_exit

SpecMain == InitMain /\ [][NextMain]_vars

(***************************************************************************)
(* Properties of main and of the connection                                *)
(***************************************************************************)
\* a connection made before call k is still open when call k is made
ConnOpenBefore(k) ==
    \E j \in 1..(k - 1) :
        /\ calls[j].op = "connect" /\ calls[j].ok
        /\ \A m \in (j + 1)..(k - 1) : calls[m].op # "disconnect"

\* C26: every operation of the choices 1 to 8 is called while
\* connection_info["is_connected"] is true, after a failed reconnection of
\* start_connect included
C26_OperationsRunConnected ==
    \A k \in CallsOf({"operation"}) : calls[k].is_connected

\* connect() is never called while a connection made earlier is open
OneConnection == \A k \in CallsOf({"connect"}) : ~ConnOpenBefore(k)

\* connection_info["is_connected"] says whether a connection is open
FlagIsExact ==
    "connection_info" \in DOMAIN loc =>
        (loc.connection_info.is_connected <=> ConnOpenBefore(Len(calls) + 1))

\* C27 as stated: connect() is never called while a connection made earlier
\* is open, and at every moment is_connected is true exactly when the last
\* connect() succeeded and no disconnect() followed
C27_OneConnectionFlagExact == OneConnection /\ FlagIsExact

\* C27 amended: connect() is never called while a connection made earlier is
\* open, and is_connected is true exactly when the last connect() succeeded
\* and no disconnect() followed whenever main is at the test of its first
\* loop, at the menu, or dispatching or calling a procedure
C27_OneConnectionFlagExactInMain ==
    /\ OneConnection
    /\ pc \in {"main_connected", "main_menu", "main_dispatch", "main_operation"}
           => FlagIsExact

\* a second connection was made after the first was dropped, main is at
\* the menu
C27_Witness ==
    /\ pc = "main_menu"
    /\ Cardinality(ReturnedOf({"connect"})) >= 2
    /\ loc.connection_info.is_connected

====
